---- MODULE Spec2Model ----
(***************************************************************************)
(* Request/reply dispatch over the pub/sub bus of Agentseek:               *)
(*   MessageQueue (sources/message_queue.py), LLMService and               *)
(*   BrowserControlService (sources/services/), and the client side        *)
(*   Agent.llm_request / BrowserAgent._make_service_request with the       *)
(*   reply handler Agent._llm_reply_handler (sources/agents/).             *)
(* One event loop: every action is the code that runs between two awaits.  *)
(* Five specifications share the state:                                    *)
(*   Spec      the exchange between one client and the started services;   *)
(*   SpecSvc   one service instance: start(), stop(), its subscription     *)
(*             tasks and the messages on its task channel;                 *)
(*   SpecMsg   one started service instance and messages of every kind,    *)
(*             well formed or not, on its task channel;                    *)
(*   SpecRetry one ErrorHandler (sources/error_handler.py) and one         *)
(*             with_retry call;                                            *)
(*   SpecReply one client's reply subscription: start_reply_subscription,  *)
(*             stop_reply_subscription, send() up to its publish, and the  *)
(*             subscribe call of each subscription task.                   *)
(***************************************************************************)
EXTENDS Integers, Sequences, FiniteSets, TLC

(* ------------------------------ bounds -------------------------------- *)
MaxCalls == 4        \* calls made on one service instance, or on one client's subscription
MaxMsgs == 2         \* messages published on the task channel of that service
MaxRetries == 3      \* the largest max_retries an ErrorHandler is constructed with
MaxReq == 2          \* send() calls (correlation ids) of the one client, all of them concurrent
MaxSends == 1        \* send() calls of the client in the runs that are checked for termination

(* --------------------------- value encoding --------------------------- *)
None == << >>                    \* Python None / a missing dict key
Some(x) == <<x>>
Obj == "obj"                     \* a Python object json.dumps cannot encode
EndTag == "</think>"             \* agent.py:162

Reqs == 1..MaxReq                \* the correlation ids uuid4() hands to send()
StrayCid == MaxReq + 1           \* a correlation id no send() of the client ever issued
TaskId(r) == StrayCid + r        \* the task's own uuid4(), equal to no correlation id

Svcs == {"llm", "browser"}
Subs == Svcs \cup {"client"}     \* the subscriptions of the process
ReplyChannel == "agent_replies"  \* Agent.agent_reply_channel

(* the channel a subscription listens on *)
Channel(sub) ==
    CASE sub = "llm" -> "llm_tasks"
      [] sub = "browser" -> "browser_tasks"
      [] OTHER -> ReplyChannel

(* Python truthiness of an optional string or text: None and "" are falsy *)
Truthy(opt) == opt # None /\ opt # Some(<< >>)

(* a result dict {success, result, data, error}; a key that is absent is None. *)
(* success is a bool, result and error are texts (sequences of string parts),  *)
(* data is a one-entry map [k, v].                                             *)
Result(succ, res, dat, err) ==
    [success |-> succ, result |-> res, data |-> dat, error |-> err]
\* a variant of the failure dict that has the error and no success key
FailureNoFlag(msg) == Result(None, None, None, Some(msg))
Failure(msg) == Result(Some(FALSE), None, None, Some(msg))

(* ------------------------------- logger -------------------------------- *)
(* StructuredLogger.error takes (event, context) only: a call that also     *)
(* passes exc_info=True raises TypeError before anything is logged.         *)
LoggerErrorRaises(excInfo) == excInfo
ExcInfoError == [kind |-> "TypeError", msg |-> <<"error() got an unexpected keyword argument 'exc_info'">>]

(* --------------------------- JSON encoding ----------------------------- *)
(* json.dumps raises TypeError on a value it cannot encode; json.loads of   *)
(* the encoded text gives the message back.                                 *)
DataSerializable(d) ==
    d = None \/ ( /\ d[1].result # Some(<<Obj>>)
                  /\ (d[1].data # None => d[1].data[1].v # Obj) )
PayloadSerializable(p) == p = None \/ p[1].content # Some(<<Obj>>)
JsonDumps(m) ==
    IF \/ "data" \in DOMAIN m /\ ~DataSerializable(m.data)
       \/ "payload" \in DOMAIN m /\ ~PayloadSerializable(m.payload)
    THEN [ok |-> FALSE, wire |-> <<"json">>]
    ELSE [ok |-> TRUE, wire |-> <<"json", m>>]
JsonLoads(w) == w[2]

(* ------------------------------ messages ------------------------------- *)
(* dataclasses.asdict(AgentTask): all six keys are present *)
TaskKeys == {"id", "type", "payload", "priority", "correlation_id", "reply_to_channel"}
TaskDict(id, type, payload, cid, replyTo) ==
    [keys |-> TaskKeys, id |-> id, type |-> type, payload |-> payload,
     priority |-> 1, correlation_id |-> cid, reply_to_channel |-> replyTo]
Payload(content, url) == [content |-> content, url |-> url]
Envelope(cid, data) == [correlation_id |-> cid, data |-> data]

NoEnv == [correlation_id |-> None]

(* ---------------------- the external collaborators --------------------- *)
(* What the provider or the browser does when a handler calls it.          *)
Text1 == <<"a">>
Text2 == <<"r", EndTag, "x", EndTag, "a", "b">>
ProviderOutcomes == {"text2", "raise"}     \* provider.respond_async(prompt)
GoToOutcomes == {"true", "false", "raise"}                 \* Browser.go_to(url)
GetTextOutcomes == {"text1", "none", "raise"}       \* Browser.get_text()
(* an answer of the collaborator that json.dumps cannot encode *)
Unencodables == {"object"}
TextOf(env) == IF env = "text2" THEN Text2 ELSE IF env = "object" THEN <<Obj>> ELSE Text1

Returned(res) == [raised |-> FALSE, result |-> res]
Raised == [raised |-> TRUE, result |-> Failure(<< >>)]

(* ------------------------- LLMService.process_task --------------------- *)
(* a variant without the else branch: a task of another type raises *)
LLMProcessTaskNoElse(task, env) ==
    IF task.type = Some("analyze_content")
    THEN IF ~Truthy(task.payload[1].content)
         THEN Returned(Failure(<<"No content provided for analysis in task payload">>))
         ELSE IF env = "raise"
              THEN IF LoggerErrorRaises(TRUE)
                   THEN Raised
                   ELSE Returned(Failure(<<"Error during LLM processing: ", "boom">>))
              ELSE Returned(Result(Some(TRUE), Some(TextOf(env)), None, None))
    ELSE Raised

LLMProcessTask(task, env) ==
    IF task.type = Some("analyze_content")
    THEN IF ~Truthy(task.payload[1].content)
         THEN Returned(Failure(<<"No content provided for analysis in task payload">>))
         ELSE IF env = "raise"
              \* except Exception: self.logger.error(..., exc_info=True)
              THEN IF LoggerErrorRaises(TRUE)
                   THEN Raised
                   ELSE Returned(Failure(<<"Error during LLM processing: ", "boom">>))
              ELSE Returned(Result(Some(TRUE), Some(TextOf(env)), None, None))
    ELSE Returned(Failure(<<"Unsupported task type for LLMService: ", task.type[1]>>))

(* -------------------- BrowserControlService handlers ------------------- *)
HandleNavigate(task, env) ==
    IF ~(task.payload[1].url # None /\ task.payload[1].url # Some(""))
    THEN Returned(Failure(<<"URL not provided for navigate">>))
    ELSE IF env = "raise" THEN Raised
    ELSE Returned(Result(Some(env = "true"), None,
                  Some([k |-> "status",
                        v |-> IF env = "true" THEN "Navigation successful"
                                              ELSE "Navigation failed"]),
                  None))

HandleGetText(task, env) ==
    IF env = "raise" THEN Raised
    ELSE IF env = "none" THEN Returned(Failure(<<"Failed to get text content">>))
    ELSE Returned(Result(Some(TRUE), None,
                  Some([k |-> "text_content", v |-> IF env = "object" THEN Obj ELSE "page"]),
                  None))

BrowserHandlers == {"browser_navigate", "browser_get_text"}

(* -------------------- BrowserControlService.process_task --------------- *)
(* startup_event creates the service with a browser instance, so the        *)
(* "Browser instance not configured" return is never taken                  *)
BrowserProcessTask(task, env) ==
    IF task.type[1] \in BrowserHandlers
    THEN LET h == IF task.type[1] = "browser_navigate"
                  THEN HandleNavigate(task, env)
                  ELSE HandleGetText(task, env)
         IN  IF h.raised
             \* except Exception: self.logger.error(..., exc_info=True)
             THEN IF LoggerErrorRaises(TRUE)
                  THEN Raised
                  ELSE Returned(Failure(<<"Error in ", task.type[1], ": ", "boom">>))
             ELSE h
    ELSE Returned(Failure(<<"Unsupported browser task type: ", task.type[1]>>))

ProcessTask(svc, task, env) ==
    IF svc = "llm" THEN LLMProcessTask(task, env) ELSE BrowserProcessTask(task, env)

(* the outcomes of the collaborator that process_task can meet for a task *)
EnvFor(svc, task) ==
    IF svc = "llm" THEN ProviderOutcomes
    ELSE IF task.type = Some("browser_navigate") THEN GoToOutcomes
    ELSE GetTextOutcomes

(* ----------------------------- publish --------------------------------- *)
(* MessageQueue.publish: json.dumps, then redis.publish; both errors are    *)
(* logged and re-raised. netOk says whether the transport accepts the write. *)
(* a variant that hands the message to the transport without encoding it *)
PublishOutcomeUnencoded(message, netOk) == IF ~netOk THEN "RedisError" ELSE "ok"

PublishOutcome(message, netOk) ==
    IF ~JsonDumps(message).ok THEN "TypeError"
    ELSE IF ~netOk THEN "RedisError"
    ELSE "ok"

(* ------------------- the services' _handle_queued_task ----------------- *)
(* a variant that only looks for the id *)
WellFormedIdOnly(taskData) == "id" \in taskData.keys

(* all(k in task_data for k in ["id", "type", "payload"]) *)
WellFormed(taskData) == {"id", "type", "payload"} \subseteq taskData.keys

WantsReply(taskData) ==
    taskData.reply_to_channel # None /\ taskData.reply_to_channel # Some("")
    /\ taskData.correlation_id # None

(* what one run of the callback did: the (channel, message) pairs it handed to *)
(* the bus, in order, and whether an exception escaped the callback           *)
Ran(pubs, escaped) == [pubs |-> pubs, escaped |-> escaped]
Publication(chan, msg) == [channel |-> chan, message |-> msg]

ServiceName(svc) == IF svc = "llm" THEN "LLMService" ELSE "BrowserService"

(* a variant that takes the task's own id for the correlation id *)
ReplyEnvelopeTaskId(taskData, result) == Envelope(taskData.id, Some(result))

(* response_message = {"correlation_id": agent_task.correlation_id, "data": result} *)
ReplyEnvelope(taskData, result) == Envelope(taskData.correlation_id, Some(result))

(* a variant of the except branch that publishes its error response without *)
(* looking at the task's reply information                                  *)
HandlerExceptUnguarded(svc, taskData, netOk) ==
    LET errorResponse ==
            ReplyEnvelope(taskData,
                          Failure(<<ServiceName(svc), " failed to process task: ", "boom">>))
        chan == IF taskData.reply_to_channel = None THEN "None"
                ELSE taskData.reply_to_channel[1]
    IN  IF PublishOutcome(errorResponse, netOk) = "ok"
        THEN Ran(<<Publication(chan, errorResponse)>>, FALSE)
        ELSE Ran(<< >>, FALSE)

(* the except Exception branch of _handle_queued_task *)
HandlerExcept(svc, taskData, netOk) ==
    \* browser_service.py:210 passes exc_info=True to the logger, llm_service.py:94 does not
    IF LoggerErrorRaises(svc = "browser")
    THEN Ran(<< >>, TRUE)
    ELSE LET errorResponse ==
                 ReplyEnvelope(taskData,
                               Failure(<<ServiceName(svc), " failed to process task: ", "boom">>))
         IN  IF WantsReply(taskData) /\ PublishOutcome(errorResponse, netOk) = "ok"
             THEN Ran(<<Publication(taskData.reply_to_channel[1], errorResponse)>>, FALSE)
             ELSE Ran(<< >>, FALSE)

(* the part of _handle_queued_task that runs once process_task has finished *)
HandleQueuedTask(svc, taskData, env, netOk) ==
    LET p == ProcessTask(svc, taskData, env)
        response == ReplyEnvelope(taskData, p.result)
    IN  IF p.raised THEN HandlerExcept(svc, taskData, netOk)
        ELSE IF WantsReply(taskData)
             THEN IF PublishOutcome(response, netOk) = "ok"
                  THEN Ran(<<Publication(taskData.reply_to_channel[1], response)>>, FALSE)
                  \* llm_service.py:84 swallows the publish error,
                  \* browser_service.py:205 lets it reach the outer except
                  ELSE IF svc = "llm" THEN Ran(<< >>, FALSE)
                       ELSE HandlerExcept(svc, taskData, netOk)
             ELSE Ran(<< >>, FALSE)

(* ------------------------------ the client ----------------------------- *)
(* Agent.remove_reasoning_text: the text after the last end tag *)
RECURSIVE RFind(_, _)
RFind(text, i) ==
    IF i = 0 THEN 0
    ELSE IF text[i] = EndTag THEN i ELSE RFind(text, i - 1)
RemoveReasoningText(text) ==
    LET endIdx == RFind(text, Len(text))
    IN  IF endIdx = 0 THEN text ELSE SubSeq(text, endIdx + 1, Len(text))

Kinds == {"llm", "browser"}      \* Agent.llm_request / BrowserAgent._make_service_request

(* the (task type, payload) pairs a producer of each kind publishes *)
TaskInputs(kind) ==
    IF kind = "llm"
    THEN {[type |-> "analyze_content", payload |-> Payload(Some(<<"p">>), None)]}
    ELSE {[type |-> "browser_get_text", payload |-> Payload(None, None)]}

ServiceChannel(kind) == IF kind = "llm" THEN "llm_tasks" ELSE "browser_tasks"

(* a variant of the client's task that names the reply channel and carries *)
(* no correlation id                                                       *)
BuildTaskNoCid(r, input) ==
    TaskDict(Some(TaskId(r)), Some(input.type), Some(input.payload), None, Some(ReplyChannel))

(* AgentTask(id=uuid4(), type, payload, priority=1, correlation_id, reply_to_channel) *)
BuildTask(r, input) ==
    TaskDict(Some(TaskId(r)), Some(input.type), Some(input.payload), Some(r), Some(ReplyChannel))

(* the task of the /test_llm_task endpoint: AgentTask(id, type, payload, *)
(* priority=1), the two reply fields left at their default None          *)
TestTask(n, input) ==
    TaskDict(Some(TaskId(n)), Some(input.type), Some(input.payload), None, None)

Return(v) == [raised |-> FALSE, exc |-> [kind |-> "none", msg |-> << >>], value |-> v]
Raise(k, m) == [raised |-> TRUE, exc |-> [kind |-> k, msg |-> m], value |-> << >>]

(* the try body of Agent.llm_request after wait_for returned response_message *)
LLMRequestBody(message) ==
    LET data == message.data
    IN  IF data = None
        THEN Raise("RuntimeError", <<"Invalid response structure from LLMService: missing 'data' field.">>)
        ELSE IF data[1].success = Some(TRUE)
             THEN IF data[1].result = None
                  THEN Return(<<"Error: LLMService returned success but no result content.">>)
                  ELSE Return(RemoveReasoningText(data[1].result[1]))
             ELSE Raise("RuntimeError",
                        <<"LLMService task failed: ">> \o
                        (IF data[1].error = None THEN <<"Unknown error from LLMService">>
                                                 ELSE data[1].error[1]))

(* a variant that returns the whole result dict instead of its data map *)
ServiceRequestBodyWhole(message, taskType) ==
    LET data == message.data
    IN  IF data = None
        THEN Raise("AttributeError", <<"'NoneType' object has no attribute 'get'">>)
        ELSE IF data[1].success # Some(TRUE)
             THEN Raise("RuntimeError",
                        IF data[1].error = None
                        THEN <<"Task ", taskType, " failed in service ", "browser_tasks">>
                        ELSE data[1].error[1])
             ELSE Return(<<data[1]>>)

(* the try body of BrowserAgent._make_service_request after wait_for returned *)
ServiceRequestBody(message, taskType) ==
    LET data == message.data
    IN  IF data = None
        \* message.get("data", {}) of a null data: None.get raises AttributeError
        THEN Raise("AttributeError", <<"'NoneType' object has no attribute 'get'">>)
        ELSE IF data[1].success # Some(TRUE)
             THEN Raise("RuntimeError",
                        IF data[1].error = None
                        THEN <<"Task ", taskType, " failed in service ", "browser_tasks">>
                        ELSE data[1].error[1])
             ELSE Return(IF data[1].data = None THEN << >> ELSE <<data[1].data[1]>>)

(* except Exception as e: logger.error(..., exc_info=True); pop; wrap or re-raise *)
SendExcept(exc) ==
    IF LoggerErrorRaises(TRUE)
    THEN [exc |-> ExcInfoError, popped |-> FALSE]
    ELSE [exc |-> IF exc.kind \in {"RuntimeError", "TimeoutError"} THEN exc
                  ELSE [kind |-> "RuntimeError", msg |-> <<"unexpected error: ">> \o exc.msg],
          popped |-> TRUE]

(* a variant that leaves the table entry behind on a timeout *)
SendTimeoutNoPop(r) ==
    [exc |-> [kind |-> "TimeoutError", msg |-> <<"timed out for correlation_id">>],
     popped |-> FALSE]

(* a variant that reports the timeout as the generic failure *)
SendTimeoutAsRuntime(r) ==
    [exc |-> [kind |-> "RuntimeError", msg |-> <<"timed out for correlation_id">>],
     popped |-> TRUE]

(* except asyncio.TimeoutError: logger.error(msg); pop; raise TimeoutError *)
SendTimeout(r) ==
    [exc |-> [kind |-> "TimeoutError", msg |-> <<"timed out for correlation_id">>],
     popped |-> TRUE]

(* how a send() ends once wait_for has returned a message or timed out:      *)
(* the outcome handed to the caller and the Pending Request table afterwards *)
SendEnd(kind, r, taskType, timedOut, message, tbl) ==
    IF timedOut
    THEN LET t == SendTimeout(r)
         IN  [outcome |-> [kind |-> t.exc.kind, value |-> t.exc.msg],
              table |-> IF t.popped THEN tbl \ {r} ELSE tbl]
    ELSE LET b == IF kind = "llm" THEN LLMRequestBody(message)
                                  ELSE ServiceRequestBody(message, taskType)
         IN  IF b.raised
             THEN LET e == SendExcept(b.exc)
                  IN  [outcome |-> [kind |-> e.exc.kind, value |-> e.exc.msg],
                       table |-> IF e.popped THEN tbl \ {r} ELSE tbl]
             ELSE [outcome |-> [kind |-> "returned", value |-> b.value], table |-> tbl]

(* a variant that resolves the future and leaves its entry in the table *)
LlmReplyHandlerNoPop(message, tbl, pendingFuts) ==
    LET cid == message.correlation_id
    IN  IF cid # None /\ cid[1] \in tbl
        THEN [table |-> tbl, target |-> cid,
              effect |-> IF cid[1] \in pendingFuts THEN "resolved" ELSE "raised"]
        ELSE [table |-> tbl, target |-> None, effect |-> "dropped"]

(* a variant that pops the entry without looking whether there is one: *)
(* dict.pop of a key that is missing raises KeyError                   *)
LlmReplyHandlerUnguarded(message, tbl, pendingFuts) ==
    LET cid == message.correlation_id
    IN  IF cid # None /\ cid[1] \in tbl
        THEN [table |-> tbl \ {cid[1]}, target |-> cid,
              effect |-> IF cid[1] \in pendingFuts THEN "resolved" ELSE "raised"]
        ELSE [table |-> tbl, target |-> None, effect |-> "raised"]

(* Agent._llm_reply_handler: the table it leaves, the request whose future *)
(* it calls set_result on, and how the call ends. pendingFuts are the       *)
(* requests whose future can still take a result: set_result on a future    *)
(* that is done or cancelled raises InvalidStateError.                      *)
LlmReplyHandler(message, tbl, pendingFuts) ==
    LET cid == message.correlation_id
    IN  IF cid # None /\ cid[1] \in tbl
        THEN [table |-> tbl \ {cid[1]}, target |-> cid,
              effect |-> IF cid[1] \in pendingFuts THEN "resolved" ELSE "raised"]
        ELSE [table |-> tbl, target |-> None, effect |-> "dropped"]

(* ================================ state ================================ *)
VARIABLES
    subState,     \* per subscription task: "none", "starting", "live", "done"
    inbox,        \* per subscription: the messages the bus delivered, not yet handled
    running,      \* BaseService.running of each service
    table,        \* Agent._llm_response_futures: the correlation ids with an entry
    futState,     \* per send(): its asyncio.Future: "none", "pending", "result", "cancelled"
    futResult,    \* per send(): the envelope its future holds while send() waits
    sendPc,       \* per send(): "idle", "sleeping", "waiting", "done"
    reqTask,      \* per send(): the locals of the call (kind, task type)
    event,        \* history, read by the properties only: what the last step did
    sut,          \* the service instance whose start() and stop() are called
    subTasks,     \* the asyncio tasks its start() created, in order of creation
    subscribeTask, \* its _subscribe_task: 0 for None, else the index of a task
    stopPc,       \* its stop() call: idle, or suspended awaiting the cancelled task
    executorShut, \* BrowserControlService.executor has been shut down
    published,    \* how many messages have been published on its task channel
    hist,         \* history of the start() and stop() calls, read by the properties only
    handler,      \* the ErrorHandler: max_retries and delay_factor
    plan,         \* what the operation given to with_retry does at each invocation
    retryPc,      \* "new", "rejected", "idle", "calling", "sleeping", "returned", "raised"
    attempt,      \* with_retry's loop variable
    trace,        \* history of with_retry: the invocations and the sleeps, in order
    retryOut,     \* what with_retry returned or raised
    replyTasks,   \* the asyncio tasks a client created for its reply subscription
    replyTask,    \* its _reply_subscription_task: 0 for None, else the index of a task
    replyStop,    \* its stop_reply_subscription() call: idle, or awaiting the task
    replySend,    \* its send() call: "idle", or "sleeping" after starting a subscription
    replyHist,    \* history of the client's calls, read by the properties only
    shutdown,     \* api.py: "serving", or how far shutdown_event has come
    is_generating, \* api.py: the busy flag of /query
    queries       \* per /query request: where its handler is and what it answered

busVars == <<subState, inbox>>
svcVars == <<running>>
clientVars == <<table, futState, futResult, sendPc, reqTask>>
lifeVars == <<sut, subTasks, subscribeTask, stopPc, executorShut, published, hist>>
retryVars == <<handler, plan, retryPc, attempt, trace, retryOut>>
replyVars == <<replyTasks, replyTask, replyStop, replySend, replyHist>>
apiVars == <<shutdown, is_generating, queries>>
vars == <<subState, inbox, running, table, futState, futResult, sendPc,
          reqTask, event, lifeVars, retryVars, replyVars, apiVars>>

NoReq == [kind |-> "none"]
Quiet == [type |-> "none"]      \* a step the properties do not look at

InitRest ==
    /\ inbox = [s \in Subs |-> << >>]
    /\ table = {}
    /\ futState = [r \in Reqs |-> "none"]
    /\ futResult = [r \in Reqs |-> NoEnv]
    /\ sendPc = [r \in Reqs |-> "idle"]
    /\ reqTask = [r \in Reqs |-> NoReq]
    /\ event = Quiet

(* the parts of the state that a run of another specification leaves alone *)
Idle == [pc |-> "idle", task |-> 0]
NoCalls == [calls |-> 0, stopped |-> FALSE, noStart |-> FALSE, overlap |-> FALSE]

LifeRest ==
    /\ subTasks = << >>
    /\ subscribeTask = 0
    /\ stopPc = Idle
    /\ executorShut = FALSE
    /\ published = 0
    /\ hist = NoCalls

NoReplyCalls == [calls |-> 0, row |-> 0, rowBase |-> 0, stops |-> 0]

ReplyRest ==
    /\ replyTasks = << >>
    /\ replyTask = 0
    /\ replyStop = Idle
    /\ replySend = "idle"
    /\ replyHist = NoReplyCalls

MaxQueries == 4             \* /query requests made
Queries == 1..MaxQueries

ApiRest ==
    /\ shutdown = "serving"
    /\ is_generating = FALSE
    /\ queries = [q \in Queries |-> [pc |-> "none", status |-> 0]]

RetryRest ==
    /\ handler = None
    /\ plan = << >>
    /\ retryPc = "new"
    /\ attempt = 0
    /\ trace = << >>
    /\ retryOut = None

(* the state after startup_event: each service either was not created (its  *)
(* collaborator is missing) or has been started and is subscribed           *)
Init ==
    /\ running \in [Svcs -> BOOLEAN]
    /\ subState = [s \in Subs |-> IF s \in Svcs /\ running[s] THEN "live" ELSE "none"]
    /\ InitRest
    /\ sut = "none"
    /\ LifeRest
    /\ RetryRest
    /\ ReplyRest
    /\ ApiRest

(* ------------------------------- the bus ------------------------------- *)
Active(st) == st \in {"starting", "live"}      \* task exists and is not done()

(* redis delivers a published message to the subscriptions that are subscribed *)
(* to the channel at that moment, and to nobody else                           *)
Deliver(inb, states, chan, message) ==
    [sub \in Subs |->
        IF Channel(sub) = chan /\ states[sub] = "live"
        THEN Append(inb[sub], JsonLoads(JsonDumps(message).wire))
        ELSE inb[sub]]

RECURSIVE DeliverAll(_, _, _)
DeliverAll(inb, states, pubs) ==
    IF pubs = << >> THEN inb
    ELSE DeliverAll(Deliver(inb, states, Head(pubs).channel, Head(pubs).message),
                    states, Tail(pubs))

HasSubscriber(states, chan) == \E sub \in Subs : Channel(sub) = chan /\ states[sub] = "live"

(* MessageQueue.subscribe: await pubsub.subscribe(channel) completes *)
SubEstablish(sub) ==
    /\ subState[sub] = "starting"
    /\ subState' = [subState EXCEPT ![sub] = "live"]
    /\ UNCHANGED <<inbox, svcVars, clientVars>>
    /\ UNCHANGED <<lifeVars, retryVars, replyVars, apiVars>>
    /\ event' = Quiet

(* ----------------------------- the services ---------------------------- *)
(* subscribe's loop hands the next message to _handle_queued_task, which    *)
(* validates it, awaits process_task (env: what the provider or the browser *)
(* did) and publishes what it publishes                                     *)
SvcHandle(s, env, netOk) ==
    /\ subState[s] = "live"
    /\ inbox[s] # << >>
    /\ LET taskData == Head(inbox[s])
           p == ProcessTask(s, taskData, env)
           ran == HandleQueuedTask(s, taskData, env, netOk)
           rest == [inbox EXCEPT ![s] = Tail(inbox[s])]
       IN  IF WellFormed(taskData)
           THEN /\ env \in EnvFor(s, taskData)
                /\ inbox' = DeliverAll(rest, subState, ran.pubs)
                /\ event' = [type |-> "handled", svc |-> s, task |-> taskData,
                             netOk |-> netOk, raised |-> p.raised, result |-> p.result,
                             pubs |-> ran.pubs, escaped |-> ran.escaped]
           ELSE /\ inbox' = rest
                /\ event' = Quiet
    /\ UNCHANGED <<subState, running, clientVars>>
    /\ UNCHANGED <<lifeVars, retryVars, replyVars, apiVars>>

(* ------------------------------ the client ----------------------------- *)
NextToIssue(r) ==
    /\ sendPc[r] = "idle"
    /\ IF r = 1 THEN TRUE ELSE sendPc[r - 1] # "idle"

(* send() finds no active reply subscription: start_reply_subscription()    *)
(* creates the task, then send() sleeps                                     *)
SendStart(r, kind) ==
    /\ NextToIssue(r)
    /\ ~Active(subState["client"])
    /\ subState' = [subState EXCEPT !["client"] = "starting"]
    /\ sendPc' = [sendPc EXCEPT ![r] = "sleeping"]
    /\ reqTask' = [reqTask EXCEPT ![r] = [kind |-> kind]]
    /\ UNCHANGED <<inbox, svcVars, table, futState, futResult>>
    /\ UNCHANGED <<lifeVars, retryVars, replyVars, apiVars>>
    /\ event' = Quiet

(* send() builds the task, registers the future under the correlation id and *)
(* publishes the task; a publish error leaves send() before its try block    *)
SendPublish(r, kind, input, netOk) ==
    /\ \/ sendPc[r] = "sleeping" /\ reqTask[r].kind = kind
       \/ NextToIssue(r) /\ Active(subState["client"])
    /\ input \in TaskInputs(kind)
    /\ LET task == BuildTask(r, input)
           chan == ServiceChannel(kind)
           res == PublishOutcome(task, netOk)
       IN  /\ table' = table \cup {r}
           /\ futState' = [futState EXCEPT ![r] = "pending"]
           /\ IF res = "ok"
              THEN /\ inbox' = Deliver(inbox, subState, chan, task)
                   /\ reqTask' = [reqTask EXCEPT ![r] =
                                     [kind |-> kind, type |-> input.type,
                                      dropped |-> ~HasSubscriber(subState, chan)]]
                   /\ sendPc' = [sendPc EXCEPT ![r] = "waiting"]
                   /\ event' = Quiet
              ELSE /\ sendPc' = [sendPc EXCEPT ![r] = "done"]
                   /\ reqTask' = [reqTask EXCEPT ![r] = NoReq]
                   /\ event' = [type |-> "send", r |-> r, kind |-> kind, published |-> FALSE,
                                dropped |-> FALSE, timedOut |-> FALSE, message |-> NoEnv,
                                outcome |-> [kind |-> res, value |-> <<"publish failed">>]]
                   /\ UNCHANGED inbox
    /\ UNCHANGED <<subState, svcVars, futResult>>
    /\ UNCHANGED <<lifeVars, retryVars, replyVars, apiVars>>

(* a variant of the wait that has no deadline *)
TimerFireNever(r) ==
    /\ FALSE
    /\ UNCHANGED vars

(* the deadline of asyncio.wait_for(future, timeout) passes: wait_for cancels *)
(* the future; send() itself resumes later                                    *)
TimerFire(r) ==
    /\ sendPc[r] = "waiting"
    /\ futState[r] = "pending"
    /\ futState' = [futState EXCEPT ![r] = "cancelled"]
    /\ UNCHANGED <<busVars, svcVars, table, futResult, sendPc, reqTask>>
    /\ UNCHANGED <<lifeVars, retryVars, replyVars, apiVars>>
    /\ event' = Quiet

(* send() resumes from wait_for, with the message or with the timeout; its *)
(* locals are gone when it has ended                                       *)
SendResume(r) ==
    /\ sendPc[r] = "waiting"
    /\ futState[r] \in {"result", "cancelled"}
    /\ LET e == SendEnd(reqTask[r].kind, r, reqTask[r].type, futState[r] = "cancelled",
                        futResult[r], table)
       IN  /\ table' = e.table
           /\ event' = [type |-> "send", r |-> r, kind |-> reqTask[r].kind, published |-> TRUE,
                        dropped |-> reqTask[r].dropped,
                        timedOut |-> futState[r] = "cancelled",
                        message |-> futResult[r], outcome |-> e.outcome]
    /\ sendPc' = [sendPc EXCEPT ![r] = "done"]
    /\ reqTask' = [reqTask EXCEPT ![r] = NoReq]
    /\ futResult' = [futResult EXCEPT ![r] = NoEnv]
    /\ UNCHANGED <<busVars, svcVars, futState>>
    /\ UNCHANGED <<lifeVars, retryVars, replyVars, apiVars>>

(* subscribe's loop hands a message of the reply channel to the callback, *)
(* _llm_reply_handler, which runs to its end without an await             *)
HandleReply(message) ==
    LET cid == message.correlation_id
        issued == cid # None /\ cid[1] \in Reqs
        h == LlmReplyHandler(message, table, {r \in Reqs : futState[r] = "pending"})
    IN  /\ table' = h.table
        /\ IF h.effect = "resolved"
           THEN /\ futState' = [futState EXCEPT ![h.target[1]] = "result"]
                /\ futResult' = [futResult EXCEPT ![h.target[1]] = message]
           ELSE UNCHANGED <<futState, futResult>>
        /\ event' = [type |-> "reply", message |-> message,
                     late |-> issued /\ futState[cid[1]] = "cancelled",
                     dup |-> issued /\ futState[cid[1]] = "result",
                     effect |-> h.effect]

(* the next envelope a service published reaches the handler *)
ReplyDeliver ==
    /\ subState["client"] = "live"
    /\ inbox["client"] # << >>
    /\ HandleReply(Head(inbox["client"]))
    /\ inbox' = [inbox EXCEPT !["client"] = Tail(inbox["client"])]
    /\ UNCHANGED <<subState, svcVars, sendPc, reqTask>>
    /\ UNCHANGED <<lifeVars, retryVars, replyVars, apiVars>>

(* --------------------------- other publishers -------------------------- *)
(* some other party publishes an envelope on the reply channel, with no     *)
(* correlation id or with one this client never issued, and it is handled  *)
StrayReply(cid) ==
    /\ subState["client"] = "live"
    /\ HandleReply(Envelope(cid, Some(Failure(<<"stray">>))))
    /\ UNCHANGED <<busVars, svcVars, sendPc, reqTask>>
    /\ UNCHANGED <<lifeVars, retryVars, replyVars, apiVars>>

(* a second envelope with the correlation id of a request that a first *)
(* envelope has resolved is published on the reply channel and handled *)
SecondReply(r) ==
    /\ subState["client"] = "live"
    /\ futState[r] = "result"
    /\ HandleReply(Envelope(Some(r), Some(Failure(<<"second">>))))
    /\ UNCHANGED <<busVars, svcVars, sendPc, reqTask>>
    /\ UNCHANGED <<lifeVars, retryVars, replyVars, apiVars>>

(* ============================ specification ============================ *)
AllEnv == ProviderOutcomes \cup GoToOutcomes \cup GetTextOutcomes
AllInputs == TaskInputs("llm") \cup TaskInputs("browser")

(* the request/reply exchange between one client and the started services *)
Next ==
    \/ \E sub \in Subs : SubEstablish(sub)
    \/ \E s \in Svcs, env \in AllEnv, netOk \in BOOLEAN : SvcHandle(s, env, netOk)
    \/ \E r \in Reqs, kind \in Kinds : SendStart(r, kind)
    \/ \E r \in Reqs, kind \in Kinds, input \in AllInputs, netOk \in BOOLEAN :
          SendPublish(r, kind, input, netOk)
    \/ \E r \in Reqs : TimerFire(r)
    \/ \E r \in Reqs : SendResume(r)
    \/ ReplyDeliver
    \/ \E cid \in {None, Some(StrayCid)} : StrayReply(cid)
    \/ \E r \in Reqs : SecondReply(r)

Spec == Init /\ [][Next]_vars

(* the event loop fires a timer whose deadline has passed and resumes a *)
(* coroutine whose wait_for has a result or has been cancelled          *)
Sends == 1..MaxSends

NextFair ==
    \/ \E sub \in Subs : SubEstablish(sub)
    \/ \E s \in Svcs, env \in AllEnv, netOk \in BOOLEAN : SvcHandle(s, env, netOk)
    \/ \E r \in Sends, kind \in Kinds : SendStart(r, kind)
    \/ \E r \in Sends, kind \in Kinds, input \in AllInputs, netOk \in BOOLEAN :
          SendPublish(r, kind, input, netOk)
    \/ \E r \in Sends : TimerFire(r)
    \/ \E r \in Sends : SendResume(r)
    \/ ReplyDeliver
    \/ \E cid \in {None, Some(StrayCid)} : StrayReply(cid)
    \/ \E r \in Sends : SecondReply(r)

SpecFair ==
    /\ Init
    /\ [][NextFair]_vars
    /\ \A r \in Sends : WF_vars(TimerFire(r))
    /\ \A r \in Sends : WF_vars(SendResume(r))

(* ====================== the runtime of one service ===================== *)
(* One service instance, sut, from its construction on: the start() and     *)
(* stop() calls made on it, the subscription tasks they create and cancel,  *)
(* and the messages other parties publish on its task channel.              *)

(* ------------------------- messages on the wire ------------------------ *)
MsgKinds == {"request", "fire", "garbage"}
AllMsgKinds == MsgKinds \cup {"partial", "unsupported", "unencodable"}

(* a task type that no service has a handler for *)
OtherType == "summarize"

(* the mandatory key that the n-th message lacks when it is a partial one *)
MissingKey(n) ==
    CASE n % 3 = 1 -> "payload"
      [] n % 3 = 2 -> "id"
      [] OTHER -> "type"

(* the dict that the n-th publish() call on the task channel of svc is given: *)
(* a task that asks for a reply, a fire-and-forget task as /test_llm_task     *)
(* builds it, a dict that lacks a mandatory key but names a reply channel and *)
(* a correlation id, a task of a type the service does not support, or a task *)
(* whose payload holds an object json.dumps cannot encode                     *)
TaskMessage(svc, kind, n) ==
    LET input == CHOOSE i \in TaskInputs(svc) : TRUE
        given == [type |-> IF kind = "unsupported" THEN OtherType ELSE input.type,
                  payload |-> IF kind = "unencodable" THEN Payload(Some(<<Obj>>), None)
                                                      ELSE input.payload]
        asked == BuildTask(n, given)
    IN  IF kind = "fire" THEN TestTask(n, given)
        ELSE IF kind = "partial" THEN [asked EXCEPT !.keys = TaskKeys \ {MissingKey(n)}]
        ELSE asked

(* the bytes of the n-th message on the task channel: what publish() encoded, *)
(* or bytes that are no JSON text, written by some other party                *)
WireOf(svc, kind, n) ==
    IF kind = "garbage" THEN <<"raw", n>>
    ELSE JsonDumps(TaskMessage(svc, kind, n)).wire

(* json.loads(data_str) raises JSONDecodeError on bytes that are no JSON text *)
Decodes(w) == w[1] = "json"

(* ------------------------ MessageQueue.subscribe ----------------------- *)
(* a variant whose loop is ended by an exception that escapes the callback *)
LoopAfterErrorEnds(kind) == IF kind = "callback" THEN "end" ELSE "continue"

(* except json.JSONDecodeError and except Exception inside the loop: both *)
(* log, and the loop goes on                                              *)
LoopAfterError(kind) == "continue"

(* a variant that takes the next message while a callback is still running *)
LoopTakesNextAnyway(t) == TRUE

(* await callback(parsed_data): the loop asks for the next message when the *)
(* callback it awaits has finished                                          *)
LoopTakesNext(t) == t.cur = << >>

(* a subscription task: state is "new" (created, not subscribed yet),       *)
(* "listening" (subscribed, in the loop), "closing" (in the finally block)  *)
(* or "done"; queue holds what redis delivered and the loop has not taken,  *)
(* cur the callback invocations in flight; cancelReq says cancel() was      *)
(* called on it; bad counts the messages that failed inside the loop        *)
NewTask == [state |-> "new", queue |-> << >>, cur |-> << >>, cancelReq |-> FALSE,
            bad |-> 0, ended |-> "no"]

TaskDone(t) == t.state = "done"                     \* asyncio.Task.done()
TaskIds == 1..MaxCalls          \* every start() call creates at most one task

(* ------------------------- start() and stop() -------------------------- *)
(* a variant of start() without the "already running" return *)
StartCreatesAlways(isRunning) == TRUE

(* if self.running: return; otherwise start() creates the subscription task *)
StartCreates(isRunning) == ~isRunning

(* a variant of stop() that asks the handle whether it is done without *)
(* testing it for None first                                           *)
StopBranchNoNoneTest(h, tasks) ==
    IF h = 0 THEN "raise"
    ELSE IF ~TaskDone(tasks[h]) THEN "cancel" ELSE "skip"

(* if self._subscribe_task and not self._subscribe_task.done(): None is  *)
(* falsy, so done() is asked of a task only                              *)
StopBranch(h, tasks) ==
    IF h = 0 THEN "skip"
    ELSE IF ~TaskDone(tasks[h]) THEN "cancel" ELSE "skip"

(* a variant of stop() that cancels the task and does not wait for its end *)
StopResumesAtOnce(t) == TRUE

(* await self._subscribe_task: stop() resumes when the task is done *)
StopResumes(t) == TaskDone(t)

(* await self._subscribe_task inside stop(): CancelledError is caught; any  *)
(* other exception of the task reaches except Exception, whose logger call  *)
(* passes exc_info=True in BrowserControlService                            *)
StopAwaitRaises(svc, ended) ==
    IF ended = "exception" THEN LoggerErrorRaises(svc = "browser") ELSE FALSE

(* the state after the service has been constructed: running is False and *)
(* _subscribe_task is None                                                 *)
InitSvc ==
    /\ sut \in Svcs
    /\ running = [s \in Svcs |-> FALSE]
    /\ subState = [s \in Subs |-> "none"]
    /\ InitRest
    /\ LifeRest
    /\ RetryRest
    /\ ReplyRest
    /\ ApiRest

(* some party publishes a message on the task channel: publish() encodes it *)
(* and redis delivers it to the subscriptions that are subscribed at that   *)
(* moment; a message that cannot be encoded makes publish() raise           *)
PublishTask(kind) ==
    /\ published < MaxMsgs
    /\ LET n == published + 1
           m == [seq |-> n, data |-> WireOf(sut, kind, n)]
           out == IF kind = "garbage" THEN "ok"
                  ELSE PublishOutcome(TaskMessage(sut, kind, n), TRUE)
       IN  /\ subTasks' = [i \in DOMAIN subTasks |->
                              IF out = "ok" /\ subTasks[i].state = "listening"
                              THEN [subTasks[i] EXCEPT !.queue = Append(@, m)]
                              ELSE subTasks[i]]
           /\ published' = IF out = "ok" THEN n ELSE published
           /\ event' = [type |-> "published", seq |-> n, kind |-> kind, outcome |-> out]
    /\ UNCHANGED <<busVars, svcVars, clientVars, retryVars, replyVars, apiVars>>
    /\ UNCHANGED <<sut, subscribeTask, stopPc, executorShut, hist>>

(* the task runs up to the end of await pubsub.subscribe(channel) *)
TaskSubscribe(i) ==
    /\ i \in DOMAIN subTasks
    /\ subTasks[i].state = "new"
    /\ ~subTasks[i].cancelReq
    /\ subTasks' = [subTasks EXCEPT ![i].state = "listening"]
    /\ event' = Quiet
    /\ UNCHANGED <<busVars, svcVars, clientVars, retryVars, replyVars, apiVars>>
    /\ UNCHANGED <<sut, subscribeTask, stopPc, executorShut, published, hist>>

(* the loop takes the next message: undecodable bytes are logged and        *)
(* skipped; a decoded message goes to _handle_queued_task, which returns at *)
(* once on a message without id, type or payload and otherwise awaits       *)
(* process_task                                                             *)
TaskReceive(i) ==
    /\ i \in DOMAIN subTasks
    /\ subTasks[i].state = "listening"
    /\ ~subTasks[i].cancelReq
    /\ LoopTakesNext(subTasks[i])
    /\ subTasks[i].queue # << >>
    /\ LET t == subTasks[i]
           m == Head(t.queue)
       IN  IF ~Decodes(m.data)
           THEN /\ subTasks' = [subTasks EXCEPT ![i] =
                       [t EXCEPT !.queue = Tail(@), !.bad = @ + 1,
                                 !.state = IF LoopAfterError("decode") = "end"
                                           THEN "closing" ELSE @]]
                /\ event' = [type |-> "undecodable", by |-> i, seq |-> m.seq]
           ELSE IF ~WellFormed(JsonLoads(m.data))
           THEN /\ subTasks' = [subTasks EXCEPT ![i].queue = Tail(@)]
                /\ event' = [type |-> "invalid", by |-> i, seq |-> m.seq]
           ELSE /\ subTasks' = [subTasks EXCEPT ![i] =
                       [t EXCEPT !.queue = Tail(@),
                                 !.cur = Append(@, [seq |-> m.seq, task |-> JsonLoads(m.data)])]]
                /\ event' = [type |-> "begun", by |-> i, seq |-> m.seq]
    /\ UNCHANGED <<busVars, svcVars, clientVars, retryVars, replyVars, apiVars>>
    /\ UNCHANGED <<sut, subscribeTask, stopPc, executorShut, published, hist>>

(* process_task comes back from the provider or the browser (env) and the  *)
(* callback runs to its end; an exception that escapes it is caught by the *)
(* loop. A browser method cannot be scheduled on an executor that has been *)
(* shut down: run_in_executor raises.                                      *)
TaskFinish(i, env, netOk) ==
    /\ i \in DOMAIN subTasks
    /\ subTasks[i].state = "listening"
    /\ ~subTasks[i].cancelReq
    /\ subTasks[i].cur # << >>
    /\ LET t == subTasks[i]
           c == Head(t.cur)
           p == ProcessTask(sut, c.task, env)
           ran == HandleQueuedTask(sut, c.task, env, netOk)
           after == IF ran.escaped THEN LoopAfterError("callback") ELSE "continue"
       IN  /\ env \in EnvFor(sut, c.task) \cup Unencodables
           /\ (sut = "browser" /\ executorShut) => env = "raise"
           /\ subTasks' = [subTasks EXCEPT ![i] =
                  [t EXCEPT !.cur = Tail(@),
                            !.bad = IF ran.escaped THEN @ + 1 ELSE @,
                            !.state = IF after = "end" THEN "closing" ELSE @]]
           /\ event' = [type |-> "handled", svc |-> sut, task |-> c.task,
                        netOk |-> netOk, raised |-> p.raised, result |-> p.result,
                        pubs |-> ran.pubs, escaped |-> ran.escaped,
                        by |-> i, seq |-> c.seq, bad |-> t.bad]
    /\ UNCHANGED <<busVars, svcVars, clientVars, retryVars, replyVars, apiVars>>
    /\ UNCHANGED <<sut, subscribeTask, stopPc, executorShut, published, hist>>

(* the cancelled task resumes with CancelledError at the await it is        *)
(* suspended in: the subscribe call, the wait for the next message or the   *)
(* callback. No except Exception clause catches it; the callback in flight  *)
(* is abandoned and subscribe enters its finally block.                     *)
TaskCancel(i) ==
    /\ i \in DOMAIN subTasks
    /\ subTasks[i].state \in {"new", "listening"}
    /\ subTasks[i].cancelReq
    /\ subTasks' = [subTasks EXCEPT ![i] =
           [@ EXCEPT !.state = "closing", !.queue = << >>, !.cur = << >>]]
    /\ event' = [type |-> "cancelled", by |-> i, aborted |-> subTasks[i].cur]
    /\ UNCHANGED <<busVars, svcVars, clientVars, retryVars, replyVars, apiVars>>
    /\ UNCHANGED <<sut, subscribeTask, stopPc, executorShut, published, hist>>

(* the transport fails while the task is suspended in pubsub.subscribe or  *)
(* waits for the next message: the RedisError is caught by subscribe's own *)
(* except clause, which logs it, and subscribe enters its finally block;   *)
(* _subscribe_to_tasks then logs that the loop ended and returns           *)
TaskTransportError(i) ==
    /\ i \in DOMAIN subTasks
    /\ subTasks[i].state \in {"new", "listening"}
    /\ ~subTasks[i].cancelReq
    /\ subTasks[i].cur = << >>
    /\ subTasks' = [subTasks EXCEPT ![i] = [@ EXCEPT !.state = "closing", !.queue = << >>]]
    /\ event' = [type |-> "transport_error", by |-> i]
    /\ UNCHANGED <<busVars, svcVars, clientVars, retryVars, replyVars, apiVars>>
    /\ UNCHANGED <<sut, subscribeTask, stopPc, executorShut, published, hist>>

(* the finally block has unsubscribed and closed the pubsub: the task ends *)
TaskClosed(i) ==
    /\ i \in DOMAIN subTasks
    /\ subTasks[i].state = "closing"
    /\ subTasks' = [subTasks EXCEPT ![i] =
           [@ EXCEPT !.state = "done", !.queue = << >>, !.cur = << >>,
                     !.ended = IF subTasks[i].cancelReq THEN "cancelled" ELSE "returned"]]
    /\ event' = [type |-> "ended", by |-> i]
    /\ UNCHANGED <<busVars, svcVars, clientVars, retryVars, replyVars, apiVars>>
    /\ UNCHANGED <<sut, subscribeTask, stopPc, executorShut, published, hist>>

(* start(): returns at once when running; otherwise sets running and creates *)
(* the subscription task (the message queue is configured)                   *)
Start ==
    /\ hist.calls < MaxCalls
    /\ IF StartCreates(running[sut])
       THEN /\ running' = [running EXCEPT ![sut] = TRUE]
            /\ subTasks' = Append(subTasks, NewTask)
            /\ subscribeTask' = Len(subTasks) + 1
       ELSE UNCHANGED <<running, subTasks, subscribeTask>>
    /\ hist' = [hist EXCEPT !.calls = @ + 1, !.noStart = FALSE,
                            !.overlap = @ \/ stopPc.pc # "idle"]
    /\ event' = [type |-> "start", created |-> StartCreates(running[sut])]
    /\ UNCHANGED <<busVars, clientVars, retryVars, replyVars, apiVars>>
    /\ UNCHANGED <<sut, stopPc, executorShut, published>>

(* the end of stop(): unless an exception leaves it before, stop() shuts   *)
(* the executor down (BrowserControlService.close_executor) and calls      *)
(* BaseService.stop, which sets running to False; isRunning is what        *)
(* self.running holds when this part begins                                *)
StopEnd(raises, isRunning) ==
    /\ running' = [running EXCEPT ![sut] = IF raises THEN isRunning ELSE FALSE]
    /\ executorShut' = (executorShut \/ (sut = "browser" /\ ~raises))
    /\ stopPc' = Idle
    /\ event' = [type |-> "stopped", raised |-> raises,
                 started |-> subscribeTask # 0, again |-> hist.stopped]

(* stop() up to its await: running = False, and the subscription task, if *)
(* there is one that is not done, is cancelled and awaited                *)
StopCall ==
    /\ hist.calls < MaxCalls
    /\ stopPc.pc = "idle"
    /\ IF StopBranch(subscribeTask, subTasks) = "cancel"
       THEN /\ running' = [running EXCEPT ![sut] = FALSE]
            /\ subTasks' = [subTasks EXCEPT ![subscribeTask].cancelReq = TRUE]
            /\ stopPc' = [pc |-> "awaiting", task |-> subscribeTask]
            /\ hist' = [hist EXCEPT !.calls = @ + 1, !.noStart = TRUE]
            /\ event' = [type |-> "stopping"]
            /\ UNCHANGED executorShut
       ELSE /\ StopEnd(StopBranch(subscribeTask, subTasks) = "raise", FALSE)
            /\ hist' = [hist EXCEPT !.calls = @ + 1, !.noStart = TRUE, !.stopped = TRUE]
            /\ UNCHANGED subTasks
    /\ UNCHANGED <<busVars, clientVars, retryVars, replyVars, apiVars>>
    /\ UNCHANGED <<sut, subscribeTask, published>>

(* the task stop() awaits is done: stop() resumes and runs to its end *)
StopReturn ==
    /\ stopPc.pc = "awaiting"
    /\ StopResumes(subTasks[stopPc.task])
    /\ StopEnd(StopAwaitRaises(sut, subTasks[stopPc.task].ended), running[sut])
    /\ hist' = [hist EXCEPT !.stopped = TRUE]
    /\ UNCHANGED <<busVars, clientVars, retryVars, replyVars, apiVars>>
    /\ UNCHANGED <<sut, subTasks, subscribeTask, published>>

NextSvc ==
    \/ \E kind \in MsgKinds : PublishTask(kind)
    \/ \E i \in TaskIds : TaskSubscribe(i)
    \/ \E i \in TaskIds : TaskReceive(i)
    \/ \E i \in TaskIds, env \in AllEnv, netOk \in BOOLEAN : TaskFinish(i, env, netOk)
    \/ \E i \in TaskIds : TaskCancel(i)
    \/ \E i \in TaskIds : TaskClosed(i)
    \/ Start
    \/ StopCall
    \/ StopReturn

SpecSvc == InitSvc /\ [][NextSvc]_vars

(* what the collaborator of a service does, an unencodable answer included *)
MsgEnv == AllEnv \cup Unencodables

(* SpecMsg follows one service instance that is started and never stopped, *)
(* with messages of every kind on its task channel                         *)
NextMsg ==
    \/ \E kind \in AllMsgKinds : PublishTask(kind)
    \/ \E i \in TaskIds : TaskSubscribe(i)
    \/ \E i \in TaskIds : TaskReceive(i)
    \/ \E i \in TaskIds, env \in MsgEnv, netOk \in BOOLEAN : TaskFinish(i, env, netOk)
    \/ Start

SpecMsg == InitSvc /\ [][NextMsg]_vars

(* the event loop runs every task that is ready: a subscription task that *)
(* can take a message or whose callback can finish does so in the end     *)
SpecMsgFair ==
    /\ SpecMsg
    /\ \A i \in TaskIds : WF_vars(TaskReceive(i))
    /\ \A i \in TaskIds : WF_vars(\E env \in MsgEnv, netOk \in BOOLEAN : TaskFinish(i, env, netOk))

(* ======================= ErrorHandler.with_retry ======================= *)
(* One ErrorHandler from its construction on, and one with_retry call on it *)
(* with an operation that fails on its first failFirst invocations and      *)
(* succeeds afterwards.                                                     *)
RetryCounts == (0 - 1)..MaxRetries           \* the max_retries arguments tried
DelayFactors == {0 - 1, 0, 1, 3}             \* the delay_factor arguments tried
FailCounts == 0..(MaxRetries + 1)            \* MaxRetries + 1: fails at every attempt

(* a variant of __init__ that does not test delay_factor *)
ErrorHandlerInitNoDelayTest(maxRetries, delayFactor) ==
    IF maxRetries < 0 THEN Raise("ValueError", <<"max_retries must be non-negative.">>)
    ELSE Return([max_retries |-> maxRetries, delay_factor |-> delayFactor])

(* ErrorHandler.__init__ *)
ErrorHandlerInit(maxRetries, delayFactor) ==
    IF maxRetries < 0 THEN Raise("ValueError", <<"max_retries must be non-negative.">>)
    ELSE IF delayFactor <= 0 THEN Raise("ValueError", <<"delay_factor must be positive.">>)
    ELSE Return([max_retries |-> maxRetries, delay_factor |-> delayFactor])

RECURSIVE Pow2(_)
Pow2(n) == IF n = 0 THEN 1 ELSE 2 * Pow2(n - 1)

(* a variant whose delay grows by delay_factor at each attempt *)
RetryDelayLinear(delayFactor, att) == delayFactor * (att + 1)

(* delay = self.delay_factor * (2 ** attempt) *)
RetryDelay(delayFactor, att) == delayFactor * Pow2(att)

(* a variant whose loop makes one attempt less *)
LoopRangeShort(maxRetries) == maxRetries

(* for attempt in range(self.max_retries + 1) *)
LoopRange(maxRetries) == maxRetries + 1

(* what the n-th invocation of the operation does; every failure raises an *)
(* exception of its own                                                    *)
OpOutcome(p, n) ==
    IF n <= p.failFirst THEN Raise("OpError", <<n>>) ELSE Return(<<"ok", n>>)

Called(n) == [op |-> "call", n |-> n]
Slept(d) == [op |-> "sleep", d |-> d]
Calls(tr) == {i \in 1..Len(tr) : tr[i].op = "call"}

InitRetry ==
    /\ running = [s \in Svcs |-> FALSE]
    /\ subState = [s \in Subs |-> "none"]
    /\ InitRest
    /\ sut = "none"
    /\ LifeRest
    /\ RetryRest
    /\ ReplyRest
    /\ ApiRest

(* ErrorHandler(max_retries, delay_factor): the object exists only when *)
(* __init__ has not raised                                              *)
Construct(maxRetries, delayFactor) ==
    /\ retryPc = "new"
    /\ LET made == ErrorHandlerInit(maxRetries, delayFactor)
       IN  IF made.raised
           THEN /\ retryPc' = "rejected"
                /\ retryOut' = Some(made)
                /\ UNCHANGED handler
           ELSE /\ retryPc' = "idle"
                /\ handler' = Some(made.value)
                /\ UNCHANGED retryOut
    /\ event' = [type |-> "constructed", max_retries |-> maxRetries,
                 delay_factor |-> delayFactor]
    /\ UNCHANGED <<plan, attempt, trace>>
    /\ UNCHANGED <<busVars, svcVars, clientVars, lifeVars, replyVars, apiVars>>

(* with_retry(func) is called and enters its loop; named says whether func *)
(* has a __name__, as a function or a bound method has                     *)
WithRetry(failFirst, named) ==
    /\ retryPc = "idle"
    /\ plan' = [failFirst |-> failFirst, named |-> named]
    /\ attempt' = 0
    /\ IF 0 < LoopRange(handler[1].max_retries)
       THEN retryPc' = "calling" /\ UNCHANGED retryOut
       ELSE /\ retryPc' = "raised"
            /\ retryOut' = Some(Raise("RuntimeError",
                    <<"Retry mechanism finished unexpectedly without success or final error.">>))
    /\ UNCHANGED <<handler, trace>>
    /\ UNCHANGED <<busVars, svcVars, clientVars, lifeVars, replyVars, apiVars, event>>

(* one pass of the loop body up to its await: func is invoked; its value is *)
(* returned; on an exception of the last attempt the exception is raised,   *)
(* on an earlier one the delay is computed, the retry is printed (which     *)
(* reads func.__name__) and with_retry sleeps                               *)
Invoke ==
    /\ retryPc = "calling"
    /\ LET n == Cardinality(Calls(trace)) + 1
           res == OpOutcome(plan, n)
           h == handler[1]
       IN  IF ~res.raised
           THEN /\ retryPc' = "returned"
                /\ retryOut' = Some(res)
                /\ trace' = Append(trace, Called(n))
           ELSE IF attempt = h.max_retries
           THEN /\ retryPc' = "raised"
                /\ retryOut' = Some(res)
                /\ trace' = Append(trace, Called(n))
           ELSE IF ~plan.named
           THEN /\ retryPc' = "raised"
                /\ retryOut' = Some(Raise("AttributeError", <<"__name__">>))
                /\ trace' = Append(trace, Called(n))
           ELSE /\ retryPc' = "sleeping"
                /\ trace' = Append(Append(trace, Called(n)),
                                   Slept(RetryDelay(h.delay_factor, attempt)))
                /\ UNCHANGED retryOut
    /\ UNCHANGED <<handler, plan, attempt>>
    /\ UNCHANGED <<busVars, svcVars, clientVars, lifeVars, replyVars, apiVars, event>>

(* asyncio.sleep(delay) is over: the loop goes to its next attempt, or, when *)
(* the range is used up, with_retry raises the last exception                *)
Wake ==
    /\ retryPc = "sleeping"
    /\ attempt' = attempt + 1
    /\ IF attempt + 1 < LoopRange(handler[1].max_retries)
       THEN retryPc' = "calling" /\ UNCHANGED retryOut
       ELSE /\ retryPc' = "raised"
            /\ retryOut' = Some(OpOutcome(plan, Cardinality(Calls(trace))))
    /\ UNCHANGED <<handler, plan, trace>>
    /\ UNCHANGED <<busVars, svcVars, clientVars, lifeVars, replyVars, apiVars, event>>

NextRetry ==
    \/ \E maxRetries \in RetryCounts, delayFactor \in DelayFactors :
          Construct(maxRetries, delayFactor)
    \/ \E failFirst \in FailCounts, named \in BOOLEAN : WithRetry(failFirst, named)
    \/ Invoke
    \/ Wake

SpecRetry == InitRetry /\ [][NextRetry]_vars

(* ================= the reply subscription of one client ================ *)
(* SpecReply follows one client: the tasks that start_reply_subscription    *)
(* creates, each running MessageQueue.subscribe on the reply channel, the   *)
(* calls of start_reply_subscription and stop_reply_subscription, and the   *)
(* part of send() before it waits for the reply.                            *)

(* how an await on the transport ends: it returns, it raises a RedisError, *)
(* or it raises something else                                              *)
AwaitOutcomes == {"ok", "redis", "other"}

(* a task made by create_task(subscribe(...)) that has not run yet *)
NewReplyTask == [state |-> "new", cancelReq |-> FALSE, pubsub |-> FALSE, exit |-> "none",
                 unsub |-> FALSE, closed |-> FALSE, ended |-> "no"]

(* subscribe leaves its try block for the given reason and suspends in the *)
(* finally block, at await pubsub.unsubscribe(channel)                     *)
SubscribeFinally(t, why) ==
    [t EXCEPT !.state = "unsubscribing", !.exit = why, !.cancelReq = FALSE]

(* the finally block ends without a new exception: a pending CancelledError *)
(* goes on to the caller, anything else was caught by an except clause      *)
SubscribeEnd(t) ==
    [t EXCEPT !.state = "done",
              !.ended = IF t.exit = "cancelled" THEN "cancelled" ELSE "returned"]

(* an exception leaves the finally block: the task ends with it *)
SubscribeAbort(t, how) == [t EXCEPT !.state = "done", !.cancelReq = FALSE, !.ended = how]

(* one step of MessageQueue.subscribe, from one suspension to the next; a   *)
(* requested cancellation is thrown at the await the task is suspended at   *)
SubscribeStep(t, out) ==
    CASE t.state = "new" ->
            IF t.cancelReq THEN SubscribeAbort(t, "cancelled")
            ELSE [t EXCEPT !.state = "connecting", !.pubsub = TRUE]
      [] t.state \in {"connecting", "listening"} ->
            IF t.cancelReq THEN SubscribeFinally(t, "cancelled")
            ELSE IF out = "ok" THEN [t EXCEPT !.state = "listening"]
            ELSE IF out = "redis" THEN SubscribeFinally(t, "transport")
            ELSE SubscribeFinally(t, "other")
      [] t.state = "unsubscribing" ->
            IF t.cancelReq THEN SubscribeAbort(t, "cancelled")
            ELSE IF out = "ok" THEN [t EXCEPT !.state = "closing", !.unsub = TRUE]
            ELSE IF out = "redis" THEN SubscribeEnd(t)
            ELSE SubscribeAbort(t, "exception")
      [] t.state = "closing" ->
            IF t.cancelReq THEN SubscribeAbort(t, "cancelled")
            ELSE IF out = "ok" THEN SubscribeEnd([t EXCEPT !.closed = TRUE])
            ELSE IF out = "redis" THEN SubscribeEnd(t)
            ELSE SubscribeAbort(t, "exception")
      [] OTHER -> t

(* what is left of a task when subscribe has ended: its locals are gone, *)
(* the task keeps how it ended                                           *)
TaskResult(t) == [NewReplyTask EXCEPT !.state = "done", !.ended = t.ended]

(* the tasks that are not done() *)
LiveReplyTasks(tasks) == {i \in DOMAIN tasks : ~TaskDone(tasks[i])}

(* self._reply_subscription_task and not self._reply_subscription_task.done() *)
ReplyActive(h, tasks) == IF h = 0 THEN FALSE ELSE ~TaskDone(tasks[h])

(* start_reply_subscription creates a task even when one is active *)
StartReplyCreatesAlways(h, tasks) == TRUE

(* start_reply_subscription returns early when the task is active *)
StartReplyCreates(h, tasks) == ~ReplyActive(h, tasks)

(* start_reply_subscription, which has no await: the tasks and the handle *)
(* after the call                                                          *)
StartReplySubscription(h, tasks) ==
    IF StartReplyCreates(h, tasks)
    THEN [tasks |-> Append(tasks, NewReplyTask), handle |-> Len(tasks) + 1, created |-> TRUE]
    ELSE [tasks |-> tasks, handle |-> h, created |-> FALSE]

(* a variant of send() that starts the subscription only when there is no *)
(* task at all                                                            *)
SendEnsuresNoneOnly(h, tasks) == h = 0

(* the condition under which send() starts the subscription and sleeps *)
SendEnsures(h, tasks) == IF h = 0 THEN TRUE ELSE TaskDone(tasks[h])

InitReply ==
    /\ running = [s \in Svcs |-> FALSE]
    /\ subState = [s \in Subs |-> "none"]
    /\ InitRest
    /\ sut = "none"
    /\ LifeRest
    /\ RetryRest
    /\ ReplyRest
    /\ ApiRest

(* the event loop runs a subscription task up to its next suspension *)
ReplyTaskStep(i, out) ==
    /\ i \in DOMAIN replyTasks
    /\ ~TaskDone(replyTasks[i])
    /\ replyTasks[i].state = "listening" => replyTasks[i].cancelReq \/ out # "ok"
    /\ LET t == SubscribeStep(replyTasks[i], out)
       IN  /\ replyTasks' = [replyTasks EXCEPT ![i] = IF TaskDone(t) THEN TaskResult(t) ELSE t]
           /\ event' = [type |-> "reply_task", task |-> i, was |-> replyTasks[i].state,
                        now |-> t]
    /\ UNCHANGED <<replyTask, replyStop, replySend, replyHist>>
    /\ UNCHANGED <<busVars, svcVars, clientVars, lifeVars, retryVars, apiVars>>

(* a call of start_reply_subscription() *)
ReplyStart ==
    /\ replyHist.calls < MaxCalls
    /\ LET s == StartReplySubscription(replyTask, replyTasks)
       IN  /\ replyTasks' = s.tasks
           /\ replyTask' = s.handle
           /\ event' = [type |-> "reply_start", created |-> s.created,
                        wasActive |-> ReplyActive(replyTask, replyTasks),
                        tasksBefore |-> replyTasks, handleBefore |-> replyTask]
    /\ replyHist' = [replyHist EXCEPT
                        !.calls = @ + 1, !.row = @ + 1,
                        !.rowBase = IF replyHist.row = 0
                                    THEN Cardinality(LiveReplyTasks(replyTasks))
                                    ELSE @]
    /\ UNCHANGED <<replyStop, replySend>>
    /\ UNCHANGED <<busVars, svcVars, clientVars, lifeVars, retryVars, apiVars>>

(* a call of stop_reply_subscription(): with an active task it cancels the *)
(* task and suspends awaiting it, otherwise it clears the handle at once    *)
ReplyStopCall ==
    /\ replyHist.calls < MaxCalls
    /\ replyStop.pc = "idle"
    /\ IF ReplyActive(replyTask, replyTasks)
       THEN /\ replyTasks' = [replyTasks EXCEPT ![replyTask].cancelReq = TRUE]
            /\ replyStop' = [pc |-> "awaiting", task |-> replyTask]
            /\ UNCHANGED replyTask
       ELSE /\ replyTask' = 0
            /\ UNCHANGED <<replyTasks, replyStop>>
    /\ replyHist' = [replyHist EXCEPT !.calls = @ + 1, !.row = 0, !.stops = @ + 1]
    /\ event' = [type |-> "reply_stop", cancelled |-> ReplyActive(replyTask, replyTasks)]
    /\ UNCHANGED replySend
    /\ UNCHANGED <<busVars, svcVars, clientVars, lifeVars, retryVars, apiVars>>

(* the awaited task is done: stop_reply_subscription() resumes, whatever the *)
(* task ended with, and clears the handle                                    *)
ReplyStopReturn ==
    /\ replyStop.pc = "awaiting"
    /\ TaskDone(replyTasks[replyStop.task])
    /\ replyTask' = 0
    /\ replyStop' = Idle
    /\ replyHist' = [replyHist EXCEPT !.row = 0]
    /\ event' = [type |-> "reply_stopped", task |-> replyStop.task, handleBefore |-> replyTask]
    /\ UNCHANGED <<replyTasks, replySend>>
    /\ UNCHANGED <<busVars, svcVars, clientVars, lifeVars, retryVars, apiVars>>

(* send() finds no active reply subscription: it calls                      *)
(* start_reply_subscription() and sleeps                                    *)
SendEnsure ==
    /\ replyHist.calls < MaxCalls
    /\ replySend = "idle"
    /\ SendEnsures(replyTask, replyTasks)
    /\ LET s == StartReplySubscription(replyTask, replyTasks)
       IN  /\ replyTasks' = s.tasks
           /\ replyTask' = s.handle
           /\ event' = [type |-> "send_ensure", created |-> s.created]
    /\ replySend' = "sleeping"
    /\ replyHist' = [replyHist EXCEPT !.calls = @ + 1, !.row = 0]
    /\ UNCHANGED replyStop
    /\ UNCHANGED <<busVars, svcVars, clientVars, lifeVars, retryVars, apiVars>>

(* send() hands its task to publish(), after the sleep or at once when it *)
(* found the subscription active; the transport takes the task or not     *)
SendPublishes(netOk) ==
    /\ \/ replySend = "sleeping"
       \/ /\ replySend = "idle"
          /\ replyHist.calls < MaxCalls
          /\ ~SendEnsures(replyTask, replyTasks)
    /\ replySend' = "idle"
    /\ replyHist' = [replyHist EXCEPT !.calls = IF replySend = "idle" THEN @ + 1 ELSE @,
                                      !.row = 0]
    /\ event' = [type |-> "send_publish", published |-> netOk,
                 slept |-> replySend = "sleeping"]
    /\ UNCHANGED <<replyTasks, replyTask, replyStop>>
    /\ UNCHANGED <<busVars, svcVars, clientVars, lifeVars, retryVars, apiVars>>

NextReply ==
    \/ \E i \in TaskIds, out \in AwaitOutcomes : ReplyTaskStep(i, out)
    \/ ReplyStart
    \/ ReplyStopCall
    \/ ReplyStopReturn
    \/ SendEnsure
    \/ \E netOk \in BOOLEAN : SendPublishes(netOk)

SpecReply == InitReply /\ [][NextReply]_vars

(* ===================== api.py: startup and shutdown ==================== *)
(* SpecShutdown follows the process of api.py with one service and one     *)
(* agent: startup_event creates a task that runs the service's start() and *)
(* one that runs the agent's start_reply_subscription(); requests make the *)
(* agent send and put tasks on the service's channel; shutdown_event stops *)
(* the agent's reply subscription, stops the service if it is running and  *)
(* closes the message queue. The server delivers the shutdown event when   *)
(* the tasks made at startup have run and no request handler is in flight. *)

(* the task made by asyncio.create_task(llm_service.start()) runs *)
StartupStartsService ==
    /\ shutdown = "serving"
    /\ hist.calls = 0
    /\ Start

(* the task made by asyncio.create_task(agent.start_reply_subscription()) runs *)
StartupStartsAgent ==
    /\ shutdown = "serving"
    /\ replyHist.calls = 0
    /\ ReplyStart

(* a request handler makes the agent send: the first half of send() *)
ServingSendEnsure ==
    /\ shutdown = "serving"
    /\ replyHist.calls \in 1..(MaxCalls - 2)
    /\ SendEnsure

(* a request handler makes the agent send: the publication *)
ServingSendPublishes(netOk) ==
    /\ shutdown = "serving"
    /\ replyHist.calls \in 1..(MaxCalls - 2) \/ replySend = "sleeping"
    /\ SendPublishes(netOk)

(* a task arrives on the service's channel while the process serves *)
ServingPublishTask ==
    /\ shutdown = "serving"
    /\ published = 0
    /\ PublishTask("request")

(* the for loop over the agents has ended: stop_reply_subscription() has *)
(* been called and has returned                                          *)
AgentsStopped == replyHist.stops = 1 /\ replyStop = Idle

(* the server calls shutdown_event *)
ShutdownEvent ==
    /\ shutdown = "serving"
    /\ hist.calls = 1
    /\ replyHist.calls >= 1
    /\ replySend = "idle"
    /\ shutdown' = "stopping"
    /\ event' = [type |-> "shutdown"]
    /\ UNCHANGED <<busVars, svcVars, clientVars, lifeVars, retryVars, replyVars>>
    /\ UNCHANGED <<is_generating, queries>>

(* await agent_instance.stop_reply_subscription(), up to its await *)
ShutdownStopsAgent ==
    /\ shutdown = "stopping"
    /\ replyHist.stops = 0
    /\ ReplyStopCall

(* if llm_service and llm_service.running: await llm_service.stop(), up to *)
(* its await                                                               *)
ShutdownStopsService ==
    /\ shutdown = "stopping"
    /\ AgentsStopped
    /\ running[sut]
    /\ StopCall

(* await message_queue.close(): the agents loop has ended and the service *)
(* was not running or its stop() has returned                             *)
ShutdownCloses ==
    /\ shutdown = "stopping"
    /\ AgentsStopped
    /\ ~running[sut]
    /\ stopPc = Idle
    /\ shutdown' = "closed"
    /\ event' = [type |-> "closed"]
    /\ UNCHANGED <<busVars, svcVars, clientVars, lifeVars, retryVars, replyVars>>
    /\ UNCHANGED <<is_generating, queries>>

NextShutdown ==
    \/ StartupStartsService
    \/ StartupStartsAgent
    \/ ServingSendEnsure
    \/ \E netOk \in BOOLEAN : ServingSendPublishes(netOk)
    \/ ServingPublishTask
    \/ \E i \in TaskIds : TaskSubscribe(i)
    \/ \E i \in TaskIds : TaskReceive(i)
    \/ \E i \in TaskIds, env \in AllEnv, netOk \in BOOLEAN : TaskFinish(i, env, netOk)
    \/ \E i \in TaskIds : TaskCancel(i)
    \/ \E i \in TaskIds : TaskTransportError(i)
    \/ \E i \in TaskIds : TaskClosed(i)
    \/ \E i \in TaskIds, out \in AwaitOutcomes : ReplyTaskStep(i, out)
    \/ ShutdownEvent
    \/ ShutdownStopsAgent
    \/ ReplyStopReturn
    \/ ShutdownStopsService
    \/ StopReturn
    \/ ShutdownCloses

SpecShutdown == InitSvc /\ [][NextShutdown]_vars

(* ========================== api.py: /query ============================= *)
(* SpecQuery follows the handlers of the /query requests the server runs *)
(* concurrently on one event loop, and the module global is_generating   *)

(* what think_wrapper does: with_retry(interaction.think) returns a true or *)
(* a false value, or think_wrapper re-raises what with_retry raised after   *)
(* the last attempt; with a true value the interaction has a current agent  *)
(* or has none                                                              *)
ThinkOutcomes == {"true", "no_agent", "false", "raise"}

(* a variant of process_query without the busy test *)
RejectsNever(busy) == FALSE

(* if is_generating: return JSONResponse(status_code=429, ...) *)
Rejects(busy) == busy

(* what process_query does once think_wrapper has ended: the status code of *)
(* the response and the value of is_generating                              *)
AfterThink(out) ==
    IF out = "raise" THEN [status |-> 500, busy |-> TRUE]
    ELSE IF out = "true" THEN [status |-> 200, busy |-> FALSE]
    ELSE [status |-> 400, busy |-> FALSE]

InitQuery ==
    /\ running = [s \in Svcs |-> FALSE]
    /\ subState = [s \in Subs |-> "none"]
    /\ InitRest
    /\ sut = "none"
    /\ LifeRest
    /\ RetryRest
    /\ ReplyRest
    /\ ApiRest

(* process_query up to its first await: the request is answered with 429 at *)
(* once, or it sets the flag and awaits think_wrapper                       *)
QueryArrives(q) ==
    /\ queries[q].pc = "none"
    /\ IF q = 1 THEN TRUE ELSE queries[q - 1].pc # "none"
    /\ IF Rejects(is_generating)
       THEN /\ queries' = [queries EXCEPT ![q] = [pc |-> "answered", status |-> 429]]
            /\ UNCHANGED is_generating
       ELSE /\ queries' = [queries EXCEPT ![q] = [pc |-> "thinking", status |-> 0]]
            /\ is_generating' = TRUE
    /\ event' = [type |-> "query_arrived", q |-> q, busy |-> is_generating,
                 others |-> {o \in Queries : queries[o].pc = "thinking"}]
    /\ UNCHANGED <<busVars, svcVars, clientVars, lifeVars, retryVars, replyVars, shutdown>>

(* think_wrapper ends and process_query runs to its response *)
QueryEnds(q, out) ==
    /\ queries[q].pc = "thinking"
    /\ queries' = [queries EXCEPT ![q] = [pc |-> "answered", status |-> AfterThink(out).status]]
    /\ is_generating' = AfterThink(out).busy
    /\ event' = [type |-> "query_done", q |-> q, out |-> out]
    /\ UNCHANGED <<busVars, svcVars, clientVars, lifeVars, retryVars, replyVars, shutdown>>

NextQuery ==
    \/ \E q \in Queries : QueryArrives(q)
    \/ \E q \in Queries, out \in ThinkOutcomes : QueryEnds(q, out)

SpecQuery == InitQuery /\ [][NextQuery]_vars

(* ============================== properties ============================= *)
(* the last step was a run of a service's task callback on a task that asks *)
(* for a reply, and the transport took what the callback published          *)
HandledRequest ==
    /\ event.type = "handled"
    /\ WantsReply(event.task)
    /\ event.netOk

(* the last step was the end of a send() whose task had been published *)
SendEnded == event.type = "send" /\ event.published

(* the last step was the end of a send() on a reply with the given success flag *)
SendEndedOnReply(succ) ==
    /\ SendEnded
    /\ ~event.timedOut
    /\ event.message.data # None
    /\ event.message.data[1].success = Some(succ)

(* the last step handed an envelope to the reply handler *)
ReplyHandled == event.type = "reply"

(* a correlation id that is missing or that no send() of the client issued *)
Unissued(cid) == cid = None \/ cid[1] \notin Reqs

(* ans is what follows the last end tag of text, or text when it has none *)
IsAnswerOf(ans, text) ==
    \E i \in 0..Len(text) :
        /\ i = 0 \/ text[i] = EndTag
        /\ \A j \in (i + 1)..Len(text) : text[j] # EndTag
        /\ ans = SubSeq(text, i + 1, Len(text))

(* t is a part of the text s *)
CarriesText(s, t) ==
    \E i \in 0..(Len(s) - Len(t)) : SubSeq(s, i + 1, i + Len(t)) = t

(* C1: a running service that handled a well-formed task asking for a reply *)
(* has published exactly one envelope, on the task's reply channel and with *)
(* the task's correlation id, whatever process_task returned or raised.     *)
C1_ExactlyOneReply ==
    HandledRequest =>
        /\ Len(event.pubs) = 1
        /\ event.pubs[1].channel = event.task.reply_to_channel[1]
        /\ event.pubs[1].message.correlation_id = event.task.correlation_id

(* C2: a pending request is resolved at most once: a request whose future   *)
(* holds a result has no table entry any more (the entry is removed in the  *)
(* step that resolves), and a second envelope with the correlation id of a  *)
(* resolved request is dropped as unmatched.                                *)
C2_ResolvedAtMostOnce ==
    /\ \A r \in Reqs : futState[r] = "result" => r \notin table
    /\ (ReplyHandled /\ event.dup) => event.effect = "dropped"

C2_Witness ==
    /\ ReplyHandled
    /\ event.dup
    /\ event.effect = "dropped"
    /\ \E r \in Reqs : event.message.correlation_id = Some(r) /\ sendPc[r] = "waiting"

(* C3: once a send() has ended, whichever way (a result, a timeout, a remote *)
(* error, a failed publish of the task), the table holds no entry for its    *)
(* correlation id.                                                           *)
C3_NoEntryAfterSend ==
    event.type = "send" => event.r \notin table

(* C4: a send() whose task reached no subscriber ends with TimeoutError and *)
(* leaves no entry for its correlation id in the table.                     *)
C4_TimeoutWithoutSubscriber ==
    (SendEnded /\ event.dropped) =>
        /\ event.timedOut
        /\ event.outcome.kind = "TimeoutError"
        /\ event.r \notin table

C4_Witness ==
    /\ SendEnded
    /\ event.dropped
    /\ event.outcome.kind = "TimeoutError"
    /\ ~running[event.kind]

(* C5: a reply that reaches the handler after the timeout of its request has *)
(* fired is dropped as unmatched: it raises nothing and resolves nothing.    *)
C5_LateReplyDropped ==
    (ReplyHandled /\ event.late) => event.effect = "dropped"

(* C6: handling an envelope whose correlation id is missing or was never   *)
(* issued raises nothing and changes neither the table nor any future: the *)
(* requests that are pending stay pending.                                 *)
C6_UnmatchedReplyChangesNothing ==
    [][ (event'.type = "reply" /\ Unissued(event'.message.correlation_id)) =>
            /\ event'.effect = "dropped"
            /\ table' = table
            /\ futState' = futState
            /\ futResult' = futResult ]_vars

C6_Witness ==
    /\ ReplyHandled
    /\ Unissued(event.message.correlation_id)
    /\ event.effect = "dropped"
    /\ \E r \in Reqs : r \in table /\ futState[r] = "pending"

(* C7: replies are matched by correlation id only: what a service publishes *)
(* for a task carries the task's correlation id and goes to the task's      *)
(* reply channel, and a request is resolved only with an envelope of its    *)
(* own correlation id, in whatever order the replies arrive.                *)
C7_MatchedByCorrelationId ==
    /\ event.type = "handled" =>
          \A i \in 1..Len(event.pubs) :
              /\ event.pubs[i].message.correlation_id = event.task.correlation_id
              /\ Some(event.pubs[i].channel) = event.task.reply_to_channel
    /\ \A r \in Reqs :
          (futState[r] = "result" /\ sendPc[r] = "waiting") =>
              futResult[r].correlation_id = Some(r)

(* the reply to a later request resolves it while an earlier one still waits *)
C7_Witness ==
    /\ ReplyHandled
    /\ event.effect = "resolved"
    /\ \E r1, r2 \in Reqs :
          /\ r1 < r2
          /\ event.message.correlation_id = Some(r2)
          /\ futResult[r2].correlation_id = Some(r2)
          /\ r1 \in table
          /\ futState[r1] = "pending"

(* C8: the round trip returns what process_task produced: the envelope a   *)
(* service publishes carries the result of process_task unchanged, and a   *)
(* send() that ends on an envelope with success true returns its payload:  *)
(* the result's data map for the browser kind, the text after the last end *)
(* tag of the result field for the llm kind.                               *)
C8_RoundTripReturnsPayload ==
    /\ (HandledRequest /\ ~event.raised /\ event.pubs # << >>) =>
          event.pubs[1].message.data = Some(event.result)
    /\ SendEndedOnReply(TRUE) =>
          /\ event.outcome.kind = "returned"
          /\ event.r \notin table
          /\ LET d == event.message.data[1]
             IN  IF event.kind = "browser"
                 THEN d.data # None /\ event.outcome.value = <<d.data[1]>>
                 ELSE d.result # None /\ IsAnswerOf(event.outcome.value, d.result[1])

C8_Witness ==
    /\ SendEndedOnReply(TRUE)
    /\ event.kind = "browser"
    /\ event.outcome.kind = "returned"
    /\ event.outcome.value = <<[k |-> "text_content", v |-> "page"]>>

(* C9: a send() that ends on an envelope with success false raises          *)
(* RuntimeError carrying the text of data.error, and returns no result.     *)
C9_RemoteFailureRaisesRuntimeError ==
    SendEndedOnReply(FALSE) =>
        /\ event.outcome.kind = "RuntimeError"
        /\ event.message.data[1].error # None =>
              CarriesText(event.outcome.value, event.message.data[1].error[1])

(* C10: the caller can tell a timeout from every other ending: a send() ends *)
(* with TimeoutError exactly when its wait timed out, so a reply with        *)
(* success false never surfaces as TimeoutError and a timeout never as the   *)
(* remote-failure kind.                                                      *)
C10_TimeoutDistinguishable ==
    event.type = "send" =>
        (event.outcome.kind = "TimeoutError" <=> event.timedOut)

C10_Witness ==
    /\ SendEndedOnReply(FALSE)
    /\ event.outcome.kind # "TimeoutError"
    /\ \E r \in Reqs : r # event.r /\ futState[r] = "cancelled"

(* C12: when the collaborator raised inside process_task, the service that  *)
(* handled a task asking for a reply, LLMService or BrowserControlService,  *)
(* has still published one envelope of the failure shape (success false and *)
(* an error) that carries the task's correlation id.                        *)
C12_ExceptionStillReplied ==
    (HandledRequest /\ event.raised) =>
        /\ Len(event.pubs) = 1
        /\ event.pubs[1].message.correlation_id = event.task.correlation_id
        /\ event.pubs[1].message.data[1].success = Some(FALSE)
        /\ event.pubs[1].message.data[1].error # None

(* the case C12 holds in: LLMService answers the exception with a failure *)
C12_Witness ==
    /\ HandledRequest
    /\ event.raised
    /\ event.svc = "llm"
    /\ Len(event.pubs) = 1
    /\ event.pubs[1].message.data[1].success = Some(FALSE)

(* ------------------------- the service runtime ------------------------- *)
(* the last step was the end of a callback run on a fire-and-forget task *)
HandledFireAndForget ==
    /\ event.type = "handled"
    /\ event.task.reply_to_channel = None
    /\ event.task.correlation_id = None

(* C11: a service that handled a fire-and-forget task, with process_task    *)
(* returning or raising, has published nothing, and an exception that left  *)
(* the callback went no further than the subscription loop, which is still  *)
(* listening: nothing reaches the party that published the task.            *)
C11_FireAndForgetSilent ==
    HandledFireAndForget =>
        /\ event.pubs = << >>
        /\ subTasks[event.by].state = "listening"

(* a fire-and-forget task on which process_task raised *)
C11_Witness ==
    /\ HandledFireAndForget
    /\ event.raised
    /\ event.pubs = << >>

(* the last step was a message that failed inside the loop: bytes that      *)
(* json.loads rejects, or a task whose callback let an exception escape     *)
BadMessage ==
    \/ event.type = "undecodable"
    \/ event.type = "handled" /\ event.escaped

(* C13: a single bad message never ends the subscription loop: after a     *)
(* decode failure and after an exception that escaped the handler, the     *)
(* task is still subscribed and in its loop, with the messages delivered   *)
(* after the bad one waiting to be handed to the handler.                  *)
C13_LoopSurvivesBadMessage ==
    BadMessage =>
        /\ subTasks[event.by].state = "listening"
        /\ \A k \in (event.seq + 1)..published :
               \E j \in 1..Len(subTasks[event.by].queue) :
                   subTasks[event.by].queue[j].seq = k

(* a message is handed to the handler by a loop that met a bad one before *)
C13_Witness ==
    /\ event.type = "begun"
    /\ subTasks[event.by].bad > 0

(* a stop() call has returned and start() has not been called since that *)
(* stop() was called                                                     *)
StopReturned == hist.noStart /\ stopPc.pc = "idle"

(* no start() was ever called while a stop() was suspended in its await *)
CallsInSequence == ~hist.overlap

(* the instance has been started and stopped, by calls made one after the *)
(* other: a stop() has returned, and a subscription task of the instance  *)
(* has ended by cancellation                                              *)
WasStopped ==
    /\ hist.stopped
    /\ CallsInSequence
    /\ \E i \in DOMAIN subTasks : subTasks[i].ended = "cancelled"

(* C14: once a stop() that cancelled the subscription task of the running *)
(* service has returned, the service publishes no further reply.          *)
C14_NoReplyAfterStop ==
    WasStopped => ~(event.type = "handled" /\ event.pubs # << >>)

(* what holds of the code: while the instance is not started again, and the *)
(* calls on it are made one after another, every subscription task is done  *)
(* once stop() has returned, and no handler run begins or ends              *)
C14_QuietUntilStartedAgain ==
    (StopReturned /\ CallsInSequence) =>
        /\ \A i \in DOMAIN subTasks : TaskDone(subTasks[i])
        /\ event.type \notin {"begun", "handled"}

(* stop() has returned after it cancelled a task, and a message published *)
(* afterwards reaches nobody                                              *)
C14_Witness ==
    /\ StopReturned
    /\ CallsInSequence
    /\ event.type = "published"
    /\ \E i \in DOMAIN subTasks : subTasks[i].ended = "cancelled"

(* C15: stop() is safe in every lifecycle state, on an instance that was    *)
(* never started and on one that has been stopped before as on a running    *)
(* one: when it ends it has not raised, and running is False.               *)
C15_StopIdempotent ==
    event.type = "stopped" => (~event.raised /\ ~running[sut])

(* a second stop() has ended on an instance that a first stop() had stopped *)
C15_Witness ==
    /\ event.type = "stopped"
    /\ event.started
    /\ event.again
    /\ ~event.raised

(* stop() has ended on an instance that was never started *)
C15_WitnessNeverStarted ==
    /\ event.type = "stopped"
    /\ ~event.started
    /\ ~event.raised

(* the service is Running: running is True and a subscription task of the *)
(* instance is subscribed and in its loop                                  *)
IsRunning ==
    /\ running[sut]
    /\ \E i \in DOMAIN subTasks : subTasks[i].state = "listening"

(* C16: the lifecycle has no way back: once the instance has been started *)
(* and stopped, no sequence of start() and stop() calls makes it Running  *)
(* again.                                                                 *)
C16_NoWayBackToRunning ==
    WasStopped => ~IsRunning

(* the subscription tasks of the instance that are not done *)
LiveTasks == {i \in DOMAIN subTasks : ~TaskDone(subTasks[i])}

(* C17: start() launches one background subscription: whatever start()     *)
(* calls are made, also on a running instance, the instance never has more *)
(* than one subscription task that is not done, so no message is delivered *)
(* to two loops of the instance. The calls are made one after another.     *)
C17_OneSubscription ==
    CallsInSequence => Cardinality(LiveTasks) <= 1

(* start() has been called on the running instance and has created nothing *)
C17_Witness ==
    /\ event.type = "start"
    /\ ~event.created
    /\ Cardinality(LiveTasks) = 1
    /\ Len(subTasks) = 1

(* C18: a stop() called while process_task is running lets that call      *)
(* finish: when the cancellation of the subscription task takes effect, no *)
(* handler invocation is in flight that it would cut off.                  *)
C18_InFlightCallFinishes ==
    event.type = "cancelled" => event.aborted = << >>

(* C19: within one subscription the handler is invoked for one message at a *)
(* time and in bus order: a loop has at most one invocation in flight, the  *)
(* message in flight was published before every message that waits, and the *)
(* waiting messages are in the order of their publication.                  *)
C19_OneAtATimeInOrder ==
    \A i \in DOMAIN subTasks :
        LET t == subTasks[i]
        IN  /\ Len(t.cur) <= 1
            /\ \A c \in 1..Len(t.cur), q \in 1..Len(t.queue) : t.cur[c].seq < t.queue[q].seq
            /\ \A q \in 1..(Len(t.queue) - 1) : t.queue[q].seq < t.queue[q + 1].seq

(* a second message has arrived while the handler runs on the first, and waits *)
C19_Witness ==
    \E i \in DOMAIN subTasks :
        /\ Len(subTasks[i].cur) = 1
        /\ subTasks[i].queue # << >>
        /\ Decodes(Head(subTasks[i].queue).data)

(* ------------------------------ with_retry ----------------------------- *)
(* with_retry has ended on an operation that fails on its first k          *)
(* invocations only, k being at most max_retries                            *)
RetryEndedWithin ==
    /\ retryPc \in {"returned", "raised"}
    /\ plan.failFirst <= handler[1].max_retries

(* with_retry has returned the value of invocation k + 1 after k + 1 *)
(* invocations, the last step of the call being that invocation      *)
ReturnedAfterKFailures ==
    /\ retryOut = Some(Return(<<"ok", plan.failFirst + 1>>))
    /\ Cardinality(Calls(trace)) = plan.failFirst + 1
    /\ trace[Len(trace)] = Called(plan.failFirst + 1)

(* C20: on an operation that fails on its first k invocations and then     *)
(* succeeds, k <= max_retries, with_retry returns the value of invocation  *)
(* k + 1 and has invoked the operation k + 1 times, no more.               *)
C20_ReturnsAfterKFailures ==
    RetryEndedWithin => ReturnedAfterKFailures

(* what holds of the code: the same, for an operation that has a __name__ *)
C20_NamedReturnsAfterKFailures ==
    (RetryEndedWithin /\ plan.named) => ReturnedAfterKFailures

(* a function failed as often as max_retries allows, and then succeeded *)
C20_Witness ==
    /\ RetryEndedWithin
    /\ plan.named
    /\ plan.failFirst = handler[1].max_retries
    /\ plan.failFirst > 0
    /\ retryPc = "returned"

(* with_retry has ended on an operation that fails at every attempt *)
RetryEndedAlwaysFailing ==
    /\ retryPc \in {"returned", "raised"}
    /\ plan.failFirst > handler[1].max_retries

(* with_retry has raised the exception of invocation max_retries + 1, after *)
(* max_retries + 1 invocations                                              *)
RaisedLastFailure ==
    /\ retryPc = "raised"
    /\ Cardinality(Calls(trace)) = handler[1].max_retries + 1
    /\ retryOut = Some(Raise("OpError", <<handler[1].max_retries + 1>>))

(* C21: on an operation that always fails, with_retry ends: it has invoked *)
(* the operation max_retries + 1 times and raises the exception of the     *)
(* last invocation, not a wrapper and not an earlier attempt's exception.  *)
C21_PropagatesLastFailure ==
    RetryEndedAlwaysFailing => RaisedLastFailure

(* what holds of the code: the same, for an operation that has a __name__ *)
C21_NamedPropagatesLastFailure ==
    (RetryEndedAlwaysFailing /\ plan.named) => RaisedLastFailure

(* a function has failed at all of the several attempts it was given *)
C21_Witness ==
    /\ RetryEndedAlwaysFailing
    /\ plan.named
    /\ handler[1].max_retries > 1
    /\ RaisedLastFailure

(* the trace alternates invocations and sleeps and begins with an          *)
(* invocation: the entry at an odd place 2i + 1 is invocation i + 1, the   *)
(* attempt with index i, and the entry at an even place 2i + 2 is the      *)
(* sleep that follows it, of delay_factor * 2^i                            *)
SleepsBetweenAttempts ==
    \A j \in 1..Len(trace) :
        IF j % 2 = 1
        THEN trace[j] = Called((j + 1) \div 2)
        ELSE /\ trace[j].op = "sleep"
             /\ trace[j].d = handler[1].delay_factor * 2^((j - 2) \div 2)
             /\ (j - 2) \div 2 < handler[1].max_retries

(* with_retry has ended: its last step was an invocation, and every failed *)
(* attempt before the last allowed one was followed by its sleep           *)
EndedWithoutSleep ==
    retryPc \in {"returned", "raised"} =>
        /\ trace[Len(trace)].op = "call"
        /\ Len(trace) = 2 * Cardinality(Calls(trace)) - 1
        /\ Cardinality(Calls(trace)) =
               IF plan.failFirst < handler[1].max_retries + 1
               THEN plan.failFirst + 1 ELSE handler[1].max_retries + 1

(* C22: with_retry sleeps delay_factor * 2^i after the failed attempt with  *)
(* index i and before attempt i + 1, for every i < max_retries, and at no   *)
(* other time: not before the first attempt, not after the last failed one. *)
C22_BackoffBetweenAttempts ==
    retryPc \in {"calling", "sleeping", "returned", "raised"} =>
        (SleepsBetweenAttempts /\ EndedWithoutSleep)

(* what holds of the code: the same, for an operation that has a __name__ *)
C22_NamedBackoffBetweenAttempts ==
    (retryPc \in {"calling", "sleeping", "returned", "raised"} /\ plan.named) =>
        (SleepsBetweenAttempts /\ EndedWithoutSleep)

(* a function has failed at three attempts and with_retry has slept three *)
(* times, the third time four times as long as the first                  *)
C22_Witness ==
    /\ retryPc \in {"returned", "raised"}
    /\ plan.named
    /\ Len(trace) = 7
    /\ trace[6] = Slept(4 * handler[1].delay_factor)
    /\ handler[1].delay_factor = 3

(* the arguments ErrorHandler was constructed with are not acceptable *)
InvalidRetryArgs == event.max_retries < 0 \/ event.delay_factor <= 0

(* with_retry can be, is being or has been called on the handler *)
RetryCallable == retryPc \in {"idle", "calling", "sleeping", "returned", "raised"}

(* C23: the retry parameters are validated at construction, not at call    *)
(* time: ErrorHandler(max_retries, delay_factor) raises exactly when        *)
(* max_retries < 0 or delay_factor <= 0 and then leaves no object, so every *)
(* handler with_retry is called on has max_retries >= 0 and delay_factor >  *)
(* 0 and with_retry never raises a validation error; max_retries = 0 is     *)
(* accepted and gives one attempt.                                          *)
C23_ValidatedAtConstruction ==
    /\ event.type = "constructed" =>
           (InvalidRetryArgs <=>
               (retryPc = "rejected" /\ handler = None /\ retryOut # None
                /\ retryOut[1].raised /\ retryOut[1].exc.kind = "ValueError"))
    /\ RetryCallable =>
           /\ handler # None
           /\ handler[1].max_retries >= 0
           /\ handler[1].delay_factor > 0
           /\ handler[1].max_retries = event.max_retries
           /\ retryOut # None => retryOut[1].exc.kind # "ValueError"
    /\ (retryPc \in {"returned", "raised"} /\ handler[1].max_retries = 0) =>
           Cardinality(Calls(trace)) = 1

(* a handler constructed with max_retries = 0 has made its one attempt, *)
(* which failed                                                         *)
C23_Witness ==
    /\ retryPc = "raised"
    /\ handler[1].max_retries = 0
    /\ trace = <<Called(1)>>

(* the construction with a delay_factor of 0 has raised *)
C23_WitnessRejected ==
    /\ retryPc = "rejected"
    /\ event.delay_factor = 0
    /\ event.max_retries >= 0

(* the last step was a call of start_reply_subscription() *)
StartCalled == event.type = "reply_start"

(* C24: a call of start_reply_subscription() made while the reply          *)
(* subscription is active creates no task and changes neither the tasks    *)
(* nor the handle; and after every call of a run of consecutive calls that *)
(* began with no live subscription, exactly one subscription task is live, *)
(* the one the handle names                                                *)
C24_StartIdempotent ==
    StartCalled =>
        /\ event.wasActive =>
              /\ ~event.created
              /\ replyTasks = event.tasksBefore
              /\ replyTask = event.handleBefore
        /\ replyHist.rowBase = 0 => LiveReplyTasks(replyTasks) = {replyTask}

(* the third call in a row, the first of which found no subscription, was  *)
(* a no-op on an active subscription                                       *)
C24_Witness ==
    /\ StartCalled
    /\ event.wasActive
    /\ replyHist.row = 3
    /\ replyHist.rowBase = 0
    /\ LiveReplyTasks(replyTasks) = {replyTask}

(* the last step was a send() handing its task to the transport, which *)
(* took it                                                              *)
SendPublished == event.type = "send_publish" /\ event.published

(* C25: whenever send() publishes a task, a subscription task on the    *)
(* client's reply channel has been created and has not finished         *)
C25_SubscribedBeforePublish == SendPublished => LiveReplyTasks(replyTasks) # {}

(* the same for a client whose stop_reply_subscription() is never called *)
C25_NeverStoppedSubscribedBeforePublish ==
    SendPublished /\ replyHist.stops = 0 => LiveReplyTasks(replyTasks) # {}

(* what holds of every publication: a subscription task was created *)
(* before it, and a send() that did not sleep publishes while the   *)
(* task of the handle is not done                                   *)
C25_CreatedBeforePublish ==
    SendPublished =>
        /\ replyTasks # << >>
        /\ ~event.slept => ReplyActive(replyTask, replyTasks)

(* a send() started the subscription, slept and published when the task *)
(* it had started was done, with no stop_reply_subscription() call      *)
C25_Witness ==
    /\ SendPublished
    /\ event.slept
    /\ replyHist.stops = 0
    /\ replyTask # 0
    /\ replyTasks[replyTask].ended = "returned"

(* the last step ended a subscribe call that had created its pubsub *)
SubscribeEnded ==
    /\ event.type = "reply_task"
    /\ TaskDone(event.now)
    /\ event.now.pubsub

(* C26: when a subscribe call ends, whatever made it leave its loop, it  *)
(* has unsubscribed from the channel and closed the pubsub; and when a   *)
(* transport error made it leave the loop, the call returns              *)
C26_CleanupOnEveryExit ==
    SubscribeEnded =>
        /\ event.now.unsub
        /\ event.now.closed
        /\ event.now.exit = "transport" => event.now.ended = "returned"

(* what holds on every exit path: the call ends from inside the finally  *)
(* block, the pubsub is closed only after the unsubscribe, and when the  *)
(* transport answers both calls of the block and no cancellation arrives *)
(* there, the call ends as the claim says                                *)
C26_CleanupAttempted ==
    SubscribeEnded =>
        /\ event.was \in {"unsubscribing", "closing"}
        /\ event.now.closed => event.now.unsub
        /\ event.now.closed /\ event.now.exit # "cancelled" => event.now.ended = "returned"
        /\ event.now.closed /\ event.now.exit = "cancelled" => event.now.ended = "cancelled"

(* a transport error ended the loop, the unsubscribe raised a RedisError *)
(* too, and the call returned without closing the pubsub                 *)
C26_Witness ==
    /\ SubscribeEnded
    /\ event.now.exit = "transport"
    /\ event.was = "unsubscribing"
    /\ event.now.ended = "returned"
    /\ ~event.now.closed

(* the loop was cancelled from outside and the cleanup was complete *)
C26_WitnessCancelled ==
    /\ SubscribeEnded
    /\ event.now.exit = "cancelled"
    /\ event.now.unsub
    /\ event.now.closed
    /\ event.now.ended = "cancelled"

(* the messages a subscription task holds: received from the transport, *)
(* or in the hands of its callback                                       *)
Held(t) == {t.queue[k].data : k \in DOMAIN t.queue} \cup
           {JsonDumps(t.cur[k].task).wire : k \in DOMAIN t.cur}

(* the last step was a publish() call on a message json.dumps cannot encode *)
PublishedUnencodable == event.type = "published" /\ event.kind = "unencodable"

(* C27: publish() of a message that json.dumps cannot encode raises        *)
(* TypeError to the publisher and no subscription receives anything of it: *)
(* the subscriptions hold what they held before, all of it whole encoded   *)
(* messages or bytes of another party                                       *)
C27_UnencodableNeverSent ==
    /\ PublishedUnencodable =>
          /\ event.outcome = "TypeError"
          /\ \A i \in DOMAIN subTasks : \A k \in DOMAIN subTasks[i].queue :
                subTasks[i].queue[k].seq # event.seq
    /\ \A i \in DOMAIN subTasks : \A w \in Held(subTasks[i]) : Len(w) = 2

(* publish() raised on the second message while a subscription that holds *)
(* the first one was listening                                            *)
C27_Witness ==
    /\ PublishedUnencodable
    /\ event.seq = 2
    /\ \E i \in DOMAIN subTasks :
          /\ subTasks[i].state = "listening"
          /\ Len(subTasks[i].queue) = 1

(* the keys a Task must have *)
Mandatory == {"id", "type", "payload"}

(* the last step took a decoded message that lacks a mandatory key *)
DroppedPartial == event.type = "invalid"

(* C28: a decoded message that lacks id, type or payload is dropped:       *)
(* process_task is never called on such a message, so no step publishes a  *)
(* reply for one, and the subscription that dropped it is listening, with  *)
(* no callback running, ready for its next message                         *)
C28_PartialDroppedSilently ==
    /\ event.type = "handled" => Mandatory \subseteq event.task.keys
    /\ \A i \in DOMAIN subTasks : \A k \in DOMAIN subTasks[i].cur :
          Mandatory \subseteq subTasks[i].cur[k].task.keys
    /\ DroppedPartial =>
          LET t == subTasks[event.by]
          IN  /\ t.state = "listening"
              /\ t.cur = << >>
              /\ \A k \in DOMAIN t.queue : t.queue[k].seq > event.seq

(* a subscription dropped a message without payload that named a reply *)
(* channel and a correlation id, and its next message is waiting       *)
C28_Witness ==
    /\ DroppedPartial
    /\ event.seq = 1
    /\ WantsReply(TaskMessage(sut, "partial", 1))
    /\ MissingKey(1) = "payload"
    /\ Len(subTasks[event.by].queue) = 1

(* the last step ran the callback on a task of a type the service has no *)
(* handler for                                                           *)
HandledUnsupported ==
    /\ event.type = "handled"
    /\ event.task.type = Some(OtherType)

(* the text names the task type *)
Names(text, type) == \E k \in DOMAIN text : text[k] = type

(* C29: process_task returns, and never raises, on a task of a type the   *)
(* service does not support; what it returns has success false and an     *)
(* error that names the type; when the task asks for a reply and the      *)
(* transport is up, exactly that result is published under the task's     *)
(* correlation id on its reply channel; and the subscription goes on      *)
C29_UnsupportedTypeAnswered ==
    HandledUnsupported =>
        /\ ~event.raised
        /\ event.result.success = Some(FALSE)
        /\ event.result.error # None
        /\ Names(event.result.error[1], OtherType)
        /\ WantsReply(event.task) /\ event.netOk =>
              /\ ~event.escaped
              /\ event.pubs = <<[channel |-> event.task.reply_to_channel[1],
                                 message |-> [correlation_id |-> event.task.correlation_id,
                                              data |-> Some(event.result)]]>>
        /\ subTasks[event.by].state = "listening"

(* a service answered a task of an unsupported type and has the next *)
(* message waiting                                                   *)
C29_Witness ==
    /\ HandledUnsupported
    /\ event.netOk
    /\ Len(event.pubs) = 1
    /\ event.seq = 1
    /\ Len(subTasks[event.by].queue) = 1

(* the reply envelopes that the last step published *)
RepliesPublished ==
    IF event.type = "handled"
    THEN {event.pubs[k].message : k \in DOMAIN event.pubs}
    ELSE {}

C30_WitnessSuccess ==
    \E m \in RepliesPublished :
        /\ m.data[1].success = Some(TRUE)
        /\ m.data[1].error = None

(* the task names a reply channel if and only if it carries a correlation id *)
Paired(t) == (t.reply_to_channel # None) <=> (t.correlation_id # None)

(* the tasks a subscription task holds: decoded from its queue, or in the *)
(* hands of its callback                                                  *)
TasksHeld(t) ==
    {JsonLoads(t.queue[k].data) : k \in {j \in DOMAIN t.queue : Decodes(t.queue[j].data)}}
    \cup {t.cur[k].task : k \in DOMAIN t.cur}

(* C31: every task a producer of the system publishes has both a reply   *)
(* channel and a correlation id, or neither, so a service never receives *)
(* or handles a task with exactly one of the two                         *)
C31_ReplyFieldsPaired ==
    /\ \A i \in DOMAIN subTasks : \A t \in TasksHeld(subTasks[i]) : Paired(t)
    /\ event.type = "handled" => Paired(event.task)
    /\ \A n \in 1..MaxMsgs :
          /\ WantsReply(TaskMessage(sut, "request", n))
          /\ TaskMessage(sut, "fire", n).reply_to_channel = None
          /\ TaskMessage(sut, "fire", n).correlation_id = None

(* a subscription holds a task with both fields and a task with neither *)
C31_Witness ==
    \E i \in DOMAIN subTasks :
        /\ \E t \in TasksHeld(subTasks[i]) : WantsReply(t)
        /\ \E t \in TasksHeld(subTasks[i]) :
              t.reply_to_channel = None /\ t.correlation_id = None

(* the n-th message is in the hands of the callback of subscription task i: *)
(* process_task has been called on it and has not returned                  *)
InHand(i, n) == \E k \in DOMAIN subTasks[i].cur : subTasks[i].cur[k].seq = n

(* C32, its second half: no task published on the channel of a running and *)
(* subscribed service is handed to process_task twice by that service: no  *)
(* two subscription tasks of the instance have process_task running on the *)
(* same message                                                            *)
C32_NotHandedTwice ==
    \A i \in DOMAIN subTasks : \A j \in DOMAIN subTasks :
        i # j => \A n \in 1..published : ~(InHand(i, n) /\ InHand(j, n))

(* the same for start() and stop() calls made one after the other *)
C32_NotHandedTwiceInSequence ==
    CallsInSequence =>
        \A i \in DOMAIN subTasks : \A j \in DOMAIN subTasks :
            i # j => \A n \in 1..published : ~(InHand(i, n) /\ InHand(j, n))

(* the n-th message is a task with the mandatory keys that waits in the *)
(* queue of subscription task i                                         *)
Waits(i, n) ==
    \E k \in DOMAIN subTasks[i].queue :
        /\ subTasks[i].queue[k].seq = n
        /\ Decodes(subTasks[i].queue[k].data)
        /\ Mandatory \subseteq JsonLoads(subTasks[i].queue[k].data).keys

(* the first half of C32 for a service that is started and not stopped:   *)
(* a task delivered to its subscription is handed to process_task in the *)
(* end                                                                    *)
C32_HandedInTheEnd ==
    \A n \in 1..MaxMsgs : \A i \in TaskIds :
        (i \in DOMAIN subTasks /\ Waits(i, n)) ~> (i \in DOMAIN subTasks /\ InHand(i, n))

(* two subscription tasks of a running instance have process_task running *)
(* on the same message                                                    *)
C32_Witness ==
    /\ running[sut]
    /\ \E i \in DOMAIN subTasks : \E j \in DOMAIN subTasks :
          /\ i # j
          /\ InHand(i, 1)
          /\ InHand(j, 1)
          /\ ~subTasks[i].cancelReq
          /\ ~subTasks[j].cancelReq

(* C33: when shutdown_event has closed the message queue, no subscription *)
(* task of the agent and none of the service is still live: each has been *)
(* cancelled and awaited, or had ended before                             *)
C33_ClosedAfterSubscriptionsEnded ==
    shutdown = "closed" =>
        /\ LiveTasks = {}
        /\ LiveReplyTasks(replyTasks) = {}

(* the message queue has been closed after the subscription of the service *)
(* and that of the agent were live at shutdown and have been cancelled     *)
C33_Witness ==
    /\ shutdown = "closed"
    /\ \E i \in DOMAIN subTasks : subTasks[i].ended = "cancelled"
    /\ \E i \in DOMAIN replyTasks : replyTasks[i].ended = "cancelled"

(* C34: under every interleaving of start_reply_subscription(),           *)
(* stop_reply_subscription() and send() on one client, every subscription  *)
(* task that is not done is the one _reply_subscription_task refers to, so *)
(* there are never two live ones and never a live one without a handle     *)
C34_LiveIsTracked ==
    \A i \in DOMAIN replyTasks : ~TaskDone(replyTasks[i]) => i = replyTask

(* the same for a client on which stop_reply_subscription() is not called *)
C34_NeverStoppedLiveIsTracked ==
    replyHist.stops = 0 =>
        \A i \in DOMAIN replyTasks : ~TaskDone(replyTasks[i]) => i = replyTask

(* stop_reply_subscription() has returned and cleared the handle while a *)
(* subscription started during its await is live                         *)
C34_Witness ==
    /\ event.type = "reply_stopped"
    /\ event.handleBefore # event.task
    /\ replyTask = 0
    /\ ~TaskDone(replyTasks[event.handleBefore])

(* two subscription tasks of the client are live at once *)
C34_WitnessTwoLive == Cardinality(LiveReplyTasks(replyTasks)) >= 2

(* the last step was a run of the callback on a task that asks for a reply, *)
(* in which process_task returned a result that json.dumps cannot encode    *)
(* while the transport accepts what is written to it                        *)
ReplyUnencodable ==
    /\ event.type = "handled"
    /\ WantsReply(event.task)
    /\ ~event.raised
    /\ event.netOk
    /\ ~DataSerializable(Some(event.result))

(* C35: when the publication of the reply fails inside the callback, the   *)
(* callback publishes on the task's reply channel a reply with the task's  *)
(* correlation id and the failure shape, whichever service it is           *)
C35_FailedReplyAnswered ==
    ReplyUnencodable =>
        \E k \in DOMAIN event.pubs :
            /\ event.pubs[k].channel = event.task.reply_to_channel[1]
            /\ event.pubs[k].message.correlation_id = event.task.correlation_id
            /\ event.pubs[k].message.data[1].success = Some(FALSE)

(* the callback ended after such a result and published nothing *)
C35_Witness ==
    /\ ReplyUnencodable
    /\ event.pubs = << >>

(* C36: whenever the service reports running, its subscription task exists *)
(* and is not done                                                          *)
C36_RunningHasLiveTask ==
    running[sut] => IF subscribeTask = 0 THEN FALSE ELSE ~TaskDone(subTasks[subscribeTask])

(* the subscription loop of the service has ended on a transport error and *)
(* the service, which nobody has stopped, still reports running            *)
C36_Witness ==
    /\ running[sut]
    /\ ~hist.noStart
    /\ subscribeTask # 0
    /\ subTasks[subscribeTask].state = "done"
    /\ subTasks[subscribeTask].ended = "returned"

(* C37: a send() that has published its task and waits for the reply ends *)
(* in the end, with a result or with an error, whatever happens to the    *)
(* task and to the reply                                                  *)
C37_SendTerminates ==
    \A r \in Sends : (sendPc[r] = "waiting") ~> (sendPc[r] = "done")

(* a send() whose task reached no subscriber has ended on the timeout *)
C37_Witness ==
    /\ event.type = "send"
    /\ event.published
    /\ event.dropped
    /\ event.timedOut
    /\ sendPc[event.r] = "done"

(* C38: a send() that finds the task of the reply subscription done (or  *)
(* none) creates a new subscription task, which the handle then refers   *)
(* to, before it publishes; a send() publishes without doing so only     *)
(* when the task of the handle is not done                               *)
C38_EndedSubscriptionRestarted ==
    /\ event.type = "send_ensure" =>
          /\ event.created
          /\ replyTask = Len(replyTasks)
          /\ replyTasks[replyTask] = NewReplyTask
          /\ replySend = "sleeping"
    /\ (event.type = "send_publish" /\ ~event.slept) =>
          IF replyTask = 0 THEN FALSE ELSE ~TaskDone(replyTasks[replyTask])

(* an earlier subscription has ended on a transport error; the send() has *)
(* started a new one, which is subscribed when the task is published      *)
C38_Witness ==
    /\ event.type = "send_publish"
    /\ event.published
    /\ event.slept
    /\ replyTask > 1
    /\ replyTasks[replyTask].state = "listening"
    /\ \E i \in 1..(replyTask - 1) : replyTasks[i].ended = "returned"

Thinking == {q \in Queries : queries[q].pc = "thinking"}

(* C39: at most one /query request is inside think_wrapper at a time, and a *)
(* request that arrived while is_generating was true has been answered 429  *)
(* without calling think_wrapper                                            *)
C39_OneQueryAtATime ==
    /\ Cardinality(Thinking) <= 1
    /\ (event.type = "query_arrived" /\ event.others # {}) =>
          /\ event.busy
          /\ queries[event.q] = [pc |-> "answered", status |-> 429]
    /\ (event.type = "query_arrived" /\ event.busy) =>
          queries[event.q] = [pc |-> "answered", status |-> 429]

(* a request arrived while another one was inside think_wrapper and has *)
(* been answered 429                                                     *)
C39_Witness ==
    /\ event.type = "query_arrived"
    /\ event.others # {}
    /\ queries[event.q].status = 429
    /\ Cardinality(Thinking) = 1

(* C40: the busy flag is released when an accepted request has finished, *)
(* however think_wrapper ended: is_generating is true only while a       *)
(* request is inside think_wrapper                                       *)
C40_FlagReleased == is_generating => Thinking # {}

(* the same for the requests in which think_wrapper returns *)
C40_FlagReleasedOnReturn ==
    (event.type = "query_done" /\ event.out # "raise") => ~is_generating

(* think_wrapper raised, the request has been answered 500 and the flag is *)
(* still set with no request in progress                                   *)
C40_Witness ==
    /\ event.type = "query_done"
    /\ event.out = "raise"
    /\ queries[event.q].status = 500
    /\ is_generating
    /\ Thinking = {}

(* after that a later request is answered 429 although none is in progress *)
C40_WitnessLocked ==
    /\ event.type = "query_arrived"
    /\ event.others = {}
    /\ queries[event.q].status = 429

====
